---- MODULE Spec2Model ----
(***************************************************************************)
(* Model of the backend of the code-visualization tool:                    *)
(*   app/services/project_service.py  (ProjectService: task registry,      *)
(*                                     upload, background pipeline,        *)
(*                                     queries, expiry sweep)              *)
(*   app/utils/chunker.py             (path classifier, scanner)           *)
(*   app/services/llm_service.py      (chat_completion retry loop)         *)
(*   app/core/config.py               (upload ceiling)                     *)
(*                                                                         *)
(* Text is modelled as a sequence of one-character strings, a relative     *)
(* path as the sequence of its segments (pathlib's Path.parts).            *)
(*                                                                         *)
(* The service runs on one asyncio event loop.  A coroutine runs without   *)
(* interruption from one await that really suspends to the next one, so    *)
(* the pipeline is modelled statement group by statement group with a      *)
(* program counter per task, and a request handler, the sweep, the clock   *)
(* or another pipeline can only take a step while every pipeline is parked *)
(* at a suspension point (Parked).                                         *)
(***************************************************************************)
EXTENDS Integers, Sequences, FiniteSets, TLC

(***************************************************************************)
(* Bounds of the model.                                                    *)
(***************************************************************************)
MaxTasks == 2          \* uuids drawn by upload_and_parse
MaxTicks == 1          \* advances of the wall clock
MaxCallers == 2        \* clients asking for a visualization at the same time
MaxJsonLen == 4        \* characters of a generator answer, all texts enumerated
MaxTextLen == 6        \* characters of a text handed to chunk_code
MaxChars == 4          \* largest max_chars tried, besides the default
MaxDepth == 3          \* segments of a path handed to should_skip_path
MaxValueLen == 2       \* characters of a value assigned in a sanitizer input
MaxCalls == 4          \* calls of chat_completion, one after the other
MaxFiles == 2          \* files of a directory handed to the scan stage

(***************************************************************************)
(* Program constants.                                                      *)
(***************************************************************************)
TASK_EXPIRY_SECONDS == 24 * 60 * 60
MAX_UPLOAD_SIZE_MB == 500
max_upload_size_bytes == MAX_UPLOAD_SIZE_MB * 1024 * 1024
max_retries == 1

Hour == 60 * 60
TickSeconds == {Hour, 24 * Hour, 25 * Hour}   \* amounts by which the modelled clock advances

(***************************************************************************)
(* Text helpers (Python str operations on character sequences).            *)
(***************************************************************************)
Uppercase == <<"A", "B", "C", "D", "E", "F", "G", "H", "I", "J", "K", "L", "M",
               "N", "O", "P", "Q", "R", "S", "T", "U", "V", "W", "X", "Y", "Z">>
Lowercase == <<"a", "b", "c", "d", "e", "f", "g", "h", "i", "j", "k", "l", "m",
               "n", "o", "p", "q", "r", "s", "t", "u", "v", "w", "x", "y", "z">>
Ascii == <<".", "/", "0", "1", "2", "3", "4", "5", "6", "7", "8", "9">>
         \o Uppercase \o <<"_">> \o Lowercase

Ord(c) == CHOOSE i \in 1..Len(Ascii) : Ascii[i] = c

\* str.lower(), character by character
LowerChar ==
    [c \in {Ascii[i] : i \in 1..Len(Ascii)} |->
        IF \E i \in 1..Len(Uppercase) : Uppercase[i] = c
        THEN Lowercase[CHOOSE i \in 1..Len(Uppercase) : Uppercase[i] = c]
        ELSE c]

lower(s) == [i \in 1..Len(s) |-> LowerChar[s[i]]]

endswith(s, pattern) ==
    /\ Len(pattern) <= Len(s)
    /\ SubSeq(s, Len(s) - Len(pattern) + 1, Len(s)) = pattern

startswith(s, prefix) ==
    /\ Len(prefix) <= Len(s)
    /\ SubSeq(s, 1, Len(prefix)) = prefix

\* str.rfind("."): the last index holding ".", 0 when there is none (1-based)
rfind_dot(s) ==
    IF \E i \in 1..Len(s) : s[i] = "."
    THEN CHOOSE i \in 1..Len(s) : s[i] = "." /\ \A j \in (i + 1)..Len(s) : s[j] /= "."
    ELSE 0

\* lexicographic order of two texts by code point (str.__lt__)
StrLess(a, b) ==
    \E k \in 1..(Len(a) + 1) :
        /\ k <= Len(b) + 1
        /\ \A j \in 1..(k - 1) : a[j] = b[j]
        /\ \/ (k = Len(a) + 1 /\ k <= Len(b))
           \/ (k <= Len(a) /\ k <= Len(b) /\ Ord(a[k]) < Ord(b[k]))

(***************************************************************************)
(* pathlib: the final component, its suffix, and str(path).                *)
(***************************************************************************)
PathName(path) == IF Len(path) = 0 THEN <<>> ELSE path[Len(path)]

PathSuffix(path) ==
    LET name == PathName(path)
        i == rfind_dot(name)
    IN  IF 1 < i /\ i < Len(name) THEN SubSeq(name, i, Len(name)) ELSE <<>>

RECURSIVE PathStr(_)
PathStr(path) ==
    IF Len(path) = 0 THEN <<".">>
    ELSE IF Len(path) = 1 THEN path[1]
    ELSE path[1] \o <<"/">> \o PathStr(Tail(path))

(***************************************************************************)
(* app/utils/chunker.py: the path classifier.                              *)
(***************************************************************************)
SKIP_DIRECTORIES ==
    { <<"n", "o", "d", "e", "_", "m", "o", "d", "u", "l", "e", "s">>, <<".", "g", "i", "t">>,
      <<"_", "_", "p", "y", "c", "a", "c", "h", "e", "_", "_">>, <<".", "v", "e", "n", "v">>,
      <<"v", "e", "n", "v">>, <<"d", "i", "s", "t">>,
      <<"b", "u", "i", "l", "d">>, <<".", "n", "e", "x", "t">>,
      <<".", "n", "u", "x", "t">>, <<"t", "a", "r", "g", "e", "t">>,
      <<"b", "i", "n">>, <<"o", "b", "j">>,
      <<".", "i", "d", "e", "a">>, <<".", "v", "s", "c", "o", "d", "e">>,
      <<".", "D", "S", "_", "S", "t", "o", "r", "e">>, <<"v", "e", "n", "d", "o", "r">>,
      <<"p", "a", "c", "k", "a", "g", "e", "s">> }

SKIP_FILE_PATTERNS ==
    { <<".", "m", "i", "n", ".", "j", "s">>, <<".", "m", "i", "n", ".", "c", "s", "s">>, <<".", "m", "a", "p">>,
      <<".", "l", "o", "c", "k">>, <<".", "s", "u", "m">>, <<".", "p", "n", "g">>,
      <<".", "j", "p", "g">>, <<".", "j", "p", "e", "g">>, <<".", "g", "i", "f">>,
      <<".", "s", "v", "g">>, <<".", "i", "c", "o">>, <<".", "w", "o", "f", "f">>,
      <<".", "w", "o", "f", "f", "2">>, <<".", "t", "t", "f">>, <<".", "e", "o", "t">>,
      <<".", "p", "y", "c">>, <<".", "p", "y", "o">>, <<".", "c", "l", "a", "s", "s">>,
      <<".", "o">>, <<".", "s", "o">>, <<".", "d", "l", "l">> }

CODE_EXTENSIONS ==
    { <<".", "p", "y">>, <<".", "j", "s">>, <<".", "t", "s">>,
      <<".", "j", "s", "x">>, <<".", "t", "s", "x">>, <<".", "j", "a", "v", "a">>,
      <<".", "g", "o">>, <<".", "r", "b">>, <<".", "p", "h", "p">>,
      <<".", "c", "s">>, <<".", "c", "p", "p">>, <<".", "c">>,
      <<".", "h">>, <<".", "v", "u", "e">>, <<".", "s", "v", "e", "l", "t", "e">>,
      <<".", "r", "s">>, <<".", "k", "t">>, <<".", "s", "w", "i", "f", "t">> }

CONFIG_EXTENSIONS ==
    { <<".", "j", "s", "o", "n">>, <<".", "y", "m", "l">>, <<".", "y", "a", "m", "l">>,
      <<".", "t", "o", "m", "l">>, <<".", "i", "n", "i">>, <<".", "c", "f", "g">>,
      <<".", "x", "m", "l">>, <<".", "h", "t", "m", "l">>, <<".", "c", "s", "s">>,
      <<".", "s", "c", "s", "s">>, <<".", "l", "e", "s", "s">>, <<".", "m", "d">>,
      <<".", "t", "x", "t">>, <<".", "r", "s", "t">> }

\* a variant that blocks every segment starting with a block-list entry
should_skip_path_PrefixMatch(path) ==
    \/ \E k \in 1..Len(path) : \E entry \in SKIP_DIRECTORIES : startswith(path[k], entry)
    \/ LET file_name == lower(PathName(path))
       IN  \E pattern \in SKIP_FILE_PATTERNS : endswith(file_name, pattern)

should_skip_path(path) ==
    \/ \E k \in 1..Len(path) : path[k] \in SKIP_DIRECTORIES
    \/ LET file_name == lower(PathName(path))
       IN  \E pattern \in SKIP_FILE_PATTERNS : endswith(file_name, pattern)

is_code_file(path) == lower(PathSuffix(path)) \in CODE_EXTENSIONS

is_config_file(path) == lower(PathSuffix(path)) \in CONFIG_EXTENSIONS

(***************************************************************************)
(* The file system under /tmp/codestory_<task_id>.  A directory is the set *)
(* of its files; a file is its relative path and two facts about its text: *)
(* whether it is blank (only white space), which is all the pipeline's     *)
(* control flow reads, and whether it holds a secret assignment such as    *)
(* api_key = "sk-live-1", which is what the redaction rules look for.      *)
(***************************************************************************)
File(path, blank) == [path |-> path, blank |-> blank, secret |-> FALSE]

SecretFile(path) == [path |-> path, blank |-> FALSE, secret |-> TRUE]

FilePaths(dir) == {f.path : f \in dir}

\* names of the entries of the directory `current` (current_path.iterdir())
iterdir(dir, current) ==
    {p[Len(current) + 1] : p \in {q \in FilePaths(dir) :
        Len(q) > Len(current) /\ SubSeq(q, 1, Len(current)) = current}}

is_file(dir, path) == path \in FilePaths(dir)

\* sorted(): the members of a set of texts in ascending order
RECURSIVE sorted(_)
sorted(S) ==
    IF S = {} THEN <<>>
    ELSE LET m == CHOOSE x \in S : \A y \in S \ {x} : StrLess(x, y)
         IN  <<m>> \o sorted(S \ {m})

\* Path.__lt__ compares the parts, segment by segment
PathLess(a, b) ==
    \E k \in 1..(Len(a) + 1) :
        /\ k <= Len(b) + 1
        /\ \A j \in 1..(k - 1) : a[j] = b[j]
        /\ \/ (k = Len(a) + 1 /\ k <= Len(b))
           \/ (k <= Len(a) /\ k <= Len(b) /\ StrLess(a[k], b[k]))

RECURSIVE sorted_paths(_)
sorted_paths(S) ==
    IF S = {} THEN <<>>
    ELSE LET m == CHOOSE x \in S : \A y \in S \ {x} : PathLess(x, y)
         IN  <<m>> \o sorted_paths(S \ {m})

(***************************************************************************)
(* ProjectService._scan_files: every file, as str(relative path), sorted.  *)
(***************************************************************************)
_scan_files(dir) == sorted({PathStr(p) : p \in FilePaths(dir)})

(***************************************************************************)
(* ProjectService._generate_file_description: the static description is    *)
(* keyed by the lower-cased suffix; "file" stands for the generic one.     *)
(***************************************************************************)
DescribedSuffixes ==
    { <<".", "p", "y">>, <<".", "j", "s">>, <<".", "t", "s">>,
      <<".", "j", "s", "x">>, <<".", "t", "s", "x">>, <<".", "j", "a", "v", "a">>,
      <<".", "g", "o">>, <<".", "c", "s", "s">>, <<".", "s", "c", "s", "s">>,
      <<".", "h", "t", "m", "l">>, <<".", "j", "s", "o", "n">>, <<".", "y", "m", "l">>,
      <<".", "y", "a", "m", "l">>, <<".", "m", "d">>, <<".", "s", "q", "l">>,
      <<".", "v", "u", "e">>, <<".", "s", "v", "e", "l", "t", "e">> }

_generate_file_description(path) ==
    LET suffix == lower(PathSuffix(path))
    IN  IF suffix \in DescribedSuffixes THEN suffix ELSE <<"f", "i", "l", "e">>

(***************************************************************************)
(* ProjectService._build_tree / _scan_directory.                           *)
(***************************************************************************)
RECURSIVE _build_tree(_, _)
_build_tree(dir, current) ==
    IF is_file(dir, current)
    THEN [name |-> PathName(current), type |-> "file", path |-> PathStr(current),
          description |-> _generate_file_description(current), summary |-> "",
          children |-> <<>>]
    ELSE LET items == sorted(iterdir(dir, current))
             kept == SelectSeq(items, LAMBDA item :
                         /\ ~should_skip_path(Append(current, item))
                         /\ ~startswith(item, <<".">>))
         IN  [name |-> PathName(current), type |-> "folder", path |-> PathStr(current),
              description |-> <<>>, summary |-> "",
              children |-> [i \in 1..Len(kept) |-> _build_tree(dir, Append(current, kept[i]))]]

_scan_directory(dir) == _build_tree(dir, <<>>)

(***************************************************************************)
(* ProjectService._is_empty_project.                                       *)
(***************************************************************************)
RECURSIVE _is_empty_project(_), _is_empty_project_AnyChild(_)
\* Seeded fault for C27: any() in place of all().
_is_empty_project_AnyChild(tree) ==
    IF tree.type = "file"
    THEN ~is_code_file(<<tree.name>>)
    ELSE IF Len(tree.children) = 0
    THEN TRUE
    ELSE \E i \in 1..Len(tree.children) : _is_empty_project(tree.children[i])

_is_empty_project(tree) ==
    IF tree.type = "file"
    THEN ~is_code_file(<<tree.name>>)
    ELSE IF Len(tree.children) = 0
    THEN TRUE
    ELSE \A i \in 1..Len(tree.children) : _is_empty_project(tree.children[i])

(***************************************************************************)
(* chunker.scan_project_files: the kept files in path order.  The skip     *)
(* test is applied to the path as walked, root directory included.         *)
(***************************************************************************)
\* the parts of /tmp/codestory_<uuid> ("u" stands for the uuid's text)
RootParts == <<<<"/">>, <<"t", "m", "p">>, <<"c", "o", "d", "e", "s", "t", "o", "r", "y", "_", "u">>>>

scan_project_files(root, dir) ==
    LET kept == {p \in FilePaths(dir) :
                    /\ ~should_skip_path(root \o p)
                    /\ (is_code_file(p) \/ is_config_file(p))}
        order == sorted_paths(kept)
    IN  [i \in 1..Len(order) |->
            [file_path |-> PathStr(order[i]), file_name |-> PathName(order[i]),
             extension |-> lower(PathSuffix(order[i]))]]

(***************************************************************************)
(* app/utils/sanitizer.py.  A text is what the pipeline can tell about it: *)
(* blank or not, and whether the literal value of a secret assignment is   *)
(* in it.  sanitize_code replaces every such value by the redaction token  *)
(* (a non-blank text), so its output holds no secret and is blank exactly  *)
(* when its input is.                                                      *)
(***************************************************************************)
Text(blank, secret) == [blank |-> blank, secret |-> secret]

EmptyText == Text(TRUE, FALSE)      \* ""

sanitize_code(source_code) == Text(source_code.blank, FALSE)

\* `sub in s` for strings
contains(s, sub) ==
    \E i \in 1..(Len(s) - Len(sub) + 1) : SubSeq(s, i, i + Len(sub) - 1) = sub

config_extensions ==
    { <<".", "e", "n", "v">>, <<".", "y", "m", "l">>, <<".", "y", "a", "m", "l">>,
      <<".", "i", "n", "i">>, <<".", "c", "f", "g">>, <<".", "c", "o", "n", "f">>,
      <<".", "t", "o", "m", "l">> }

code_extensions ==
    { <<".", "p", "y">>, <<".", "j", "s">>, <<".", "t", "s">>,
      <<".", "j", "s", "x">>, <<".", "t", "s", "x">>, <<".", "j", "a", "v", "a">>,
      <<".", "g", "o">>, <<".", "r", "b">>, <<".", "p", "h", "p">> }

sanitize_file_content(file_path, content) ==
    LET lower_path == lower(file_path)
    IN  IF \E ext \in config_extensions : endswith(lower_path, ext)
        THEN sanitize_code(content)
        ELSE IF endswith(lower_path, <<".", "e", "n", "v">>)
                \/ contains(lower_path, <<"/", ".", "e", "n", "v">>)
        THEN sanitize_code(content)
        ELSE IF \E ext \in code_extensions : endswith(lower_path, ext)
        THEN sanitize_code(content)
        ELSE content

(***************************************************************************)
(* ProjectService._sanitize_summaries: adds sanitized_preview, the first   *)
(* 3000 characters of sanitize_file_content(file_path, text), or "" when   *)
(* the file is not there.  has_preview records                             *)
(* sanitized_preview.strip() being non-empty.                              *)
(***************************************************************************)
read_text(dir, file_path) ==
    LET f == CHOOSE f \in dir : PathStr(f.path) = file_path
    IN  Text(f.blank, f.secret)

_sanitize_summaries(dir, file_summaries) ==
    [i \in 1..Len(file_summaries) |->
        LET summary == file_summaries[i]
            sanitized_preview ==
                IF \E f \in dir : PathStr(f.path) = summary.file_path
                THEN sanitize_file_content(summary.file_path,
                                           read_text(dir, summary.file_path))
                ELSE EmptyText
        IN  [file_path |-> summary.file_path,
             file_name |-> summary.file_name,
             extension |-> summary.extension,
             sanitized_preview |-> sanitized_preview,
             has_preview |-> ~sanitized_preview.blank]]

\* _enrich_tree_with_summaries: the code files a summary is requested for
code_files_for_summary(file_summaries) ==
    SelectSeq(file_summaries, LAMBDA s : is_code_file(<<s.file_name>>) /\ s.has_preview)

(***************************************************************************)
(* The archives an upload is drawn from.                                   *)
(***************************************************************************)
P_main_py == <<<<"m", ".", "p", "y">>>>
P_logo_png == <<<<"l", ".", "p", "n", "g">>>>
P_src_app_js == <<<<"s", "r", "c">>, <<"a", ".", "j", "s">>>>
P_README_md == <<<<"R", ".", "m", "d">>>>
P_vendor_x_js == <<<<"v", "e", "n", "d", "o", "r">>, <<"x", ".", "j", "s">>>>
P_key_rs == <<<<"k", ".", "r", "s">>>>

ArchImage == {File(P_logo_png, FALSE)}
ArchMixed ==
    {SecretFile(P_src_app_js), File(P_README_md, FALSE), File(P_vendor_x_js, FALSE),
     SecretFile(P_key_rs)}
ArchBlank == {File(P_main_py, TRUE)}
ArchKey == {SecretFile(P_key_rs)}

Archives == {ArchImage, ArchMixed, ArchBlank}

(***************************************************************************)
(* State.                                                                  *)
(***************************************************************************)
VARIABLES
    tasks,       \* ProjectService.tasks: task id -> task record
    dirs,        \* the file system: id -> contents of /tmp/codestory_<id>, when it exists
    pc,          \* id -> position of the coroutine _parse_project(id, ...)
    local,       \* id -> that coroutine's arguments and local variables
    uuids,       \* number of uuid4() values drawn so far
    clock,       \* time.time(), in seconds
    ticks,       \* number of clock advances so far
    resp,        \* outcome of the call made by the last step, NoResp after any other step
    requested,   \* id -> the pipeline of id has sent a request to the generator (client.post)
    configured,  \* LLMService.is_configured
    _cache,      \* ArchitectureService._cache: task id -> visualization
    viz,         \* caller -> position of its get_architecture_visualization request
    arg,         \* the argument of the function under study, when one is
    ret,         \* what the function returned or raised, None before the call
    chat         \* the frame of the chat_completion call under study

archVars == <<_cache, viz>>
callVars == <<arg, ret, chat>>

vars == <<tasks, dirs, pc, local, uuids, clock, ticks, resp, requested, configured,
          archVars, callVars>>

Ids == 1..MaxTasks

None == <<>>
Some(x) == <<x>>

Put(f, k, v) == [x \in (DOMAIN f) \cup {k} |-> IF x = k THEN v ELSE f[x]]
Drop(f, S) == [x \in (DOMAIN f) \ S |-> f[x]]

\* the messages written to a task, by the line that writes them
MsgCreated == <<"start">>            \* "开始解析项目..."
MsgUnpack == <<"unpack">>            \* "正在解压文件..."
MsgScan == <<"scan">>                \* "正在扫描目录结构..."
MsgExtract == <<"extract">>          \* "正在提取代码摘要..."
MsgSanitize == <<"sanitize">>        \* "正在进行代码脱敏..."
MsgEnrich == <<"enrich">>            \* "AI 正在翻阅代码，生成白话摘要..."
MsgDiagram == <<"diagram">>          \* "正在生成架构图..."
MsgFinalize == <<"finalize">>        \* "正在整理结果..."
MsgCompleted == <<"completed">>      \* "项目解析完成！"
MsgEmptyProject == <<"empty_project">>   \* "项目为空或不包含可解析的源代码文件"
MsgFailed(error) == <<"parse_failed", error>>   \* f"解析失败: {str(error)}"
MsgNotFound == <<"no_such_task">>    \* "任务不存在"

NoResp ==
    [op |-> "none", task_id |-> 0, raised |-> "", status |-> "", progress |-> 0,
     message |-> <<>>, file_list |-> <<>>, data |-> None]

NoLocal ==
    [file_content |-> {}, project_tree |-> None, file_summaries |-> <<>>,
     enriched_tree |-> None, mermaid_diagram |-> None, error |-> "", attempt |-> 0]

Callers == 1..MaxCallers

\* a caller with no request for a visualization in progress
NoViz == [pc |-> "idle", task_id |-> 0, layers |-> None, scenarios |-> None]

\* positions at which a pipeline coroutine does not hold the event loop
SuspensionPoints == {"none", "queued", "await_enrich", "await_diagram", "done"}

Parked == \A i \in Ids : pc[i] \in SuspensionPoints

\* no call of chat_completion has been made
NoChat == [pc |-> "idle", attempt |-> 0, requests |-> 0, responses |-> <<>>, calls |-> 0]

\* the services as constructed at import time
Constructed ==
    /\ chat = NoChat
    /\ tasks = [i \in {} |-> NoResp]
    /\ dirs = [i \in {} |-> {}]
    /\ pc = [i \in Ids |-> "none"]
    /\ local = [i \in Ids |-> NoLocal]
    /\ uuids = 0
    /\ clock = 0
    /\ ticks = 0
    /\ resp = NoResp
    /\ requested = [i \in Ids |-> FALSE]
    /\ configured \in BOOLEAN
    /\ _cache = [i \in {} |-> NoResp]
    /\ viz = [c \in Callers |-> NoViz]

Init ==
    /\ Constructed
    /\ arg = None
    /\ ret = None

(***************************************************************************)
(* ProjectService._safe_cleanup: rmtree removes the directory, or raises   *)
(* OSError, which is logged and swallowed (the directory stays).           *)
(***************************************************************************)
_safe_cleanup(d, id, rmtree_ok) == IF id \in DOMAIN d /\ rmtree_ok THEN Drop(d, {id}) ELSE d

(***************************************************************************)
(* ProjectService._update_progress (the caller checks the key first: a     *)
(* missing key is the KeyError branch of the step).                        *)
(***************************************************************************)
\* Seeded fault for C24: the progress is written to every record of the registry.
_update_progress_AllTasks(t, id, progress, message) ==
    [k \in DOMAIN t |-> [t[k] EXCEPT !.progress = progress, !.message = message]]

_update_progress(t, id, progress, message) ==
    [t EXCEPT ![id].progress = progress, ![id].message = message]

(***************************************************************************)
(* ProjectService.upload_and_parse.  The coroutine has no await that       *)
(* suspends, so the whole call is one step.                                *)
(***************************************************************************)
\* The uploads the model draws from: (size in bytes, zipfile.is_zipfile,
\* the files of the archive, whether makedirs/extractall succeed).
Upload(size, is_zip, archive, extract_ok) ==
    [size |-> size, is_zip |-> is_zip, archive |-> archive, extract_ok |-> extract_ok]

UploadInputs ==
    { Upload(max_upload_size_bytes + 1, TRUE, ArchMixed, TRUE),     \* over the ceiling
      Upload(max_upload_size_bytes, TRUE, ArchBlank, TRUE),         \* exactly at the ceiling
      Upload(1024, FALSE, {}, TRUE),                                \* not a ZIP file
      Upload(1024, TRUE, ArchMixed, FALSE) }                        \* unpacking fails
    \cup {Upload(1024, TRUE, archive, TRUE) : archive \in Archives}

\* Seeded fault for C6: the task id is not fresh (every upload uses id 1).
upload_and_parse_SameId(size, is_zip, archive, extract_ok) ==
    /\ Parked
    /\ UNCHANGED <<clock, ticks, requested, configured, archVars, callVars>>
    /\ IF size > max_upload_size_bytes \/ ~is_zip
       THEN /\ resp' = [NoResp EXCEPT !.op = "upload_and_parse", !.raised = "ValueError"]
            /\ UNCHANGED <<tasks, dirs, pc, local, uuids>>
       ELSE /\ uuids < MaxTasks
            /\ uuids' = uuids + 1
            /\ IF ~extract_ok
               THEN /\ dirs' = Put(dirs, 1, {})
                    /\ resp' = [NoResp EXCEPT !.op = "upload_and_parse",
                                              !.raised = "ValueError"]
                    /\ UNCHANGED <<tasks, pc, local>>
               ELSE /\ dirs' = Put(dirs, 1, archive)
                    /\ tasks' = Put(tasks, 1,
                           [task_id |-> 1,
                            file_list |-> _scan_files(archive),
                            directory |-> 1,
                            status |-> "processing",
                            progress |-> 0,
                            message |-> MsgCreated,
                            project_data |-> None,
                            file_summaries |-> <<>>,
                            created_at |-> clock])
                    /\ pc' = [pc EXCEPT ![1] = "queued"]
                    /\ local' = [local EXCEPT ![1].file_content = archive]
                    /\ resp' = [NoResp EXCEPT !.op = "upload_and_parse",
                                              !.task_id = 1,
                                              !.file_list = _scan_files(archive)]

\* Seeded fault for C7: the size check is missing.
upload_and_parse_NoSizeCheck(size, is_zip, archive, extract_ok) ==
    /\ Parked
    /\ UNCHANGED <<clock, ticks, requested, configured, archVars, callVars>>
    /\ IF ~is_zip
       THEN /\ resp' = [NoResp EXCEPT !.op = "upload_and_parse", !.raised = "ValueError"]
            /\ UNCHANGED <<tasks, dirs, pc, local, uuids>>
       ELSE /\ uuids < MaxTasks
            /\ LET task_id == uuids + 1
               IN  /\ uuids' = task_id
                   /\ IF ~extract_ok
                      THEN /\ dirs' = Put(dirs, task_id, {})
                           /\ resp' = [NoResp EXCEPT !.op = "upload_and_parse",
                                                     !.raised = "ValueError"]
                           /\ UNCHANGED <<tasks, pc, local>>
                      ELSE /\ dirs' = Put(dirs, task_id, archive)
                           /\ tasks' = Put(tasks, task_id,
                                  [task_id |-> task_id,
                                   file_list |-> _scan_files(archive),
                                   directory |-> task_id,
                                   status |-> "processing",
                                   progress |-> 0,
                                   message |-> MsgCreated,
                                   project_data |-> None,
                                   file_summaries |-> <<>>,
                                   created_at |-> clock])
                           /\ pc' = [pc EXCEPT ![task_id] = "queued"]
                           /\ local' = [local EXCEPT ![task_id].file_content = archive]
                           /\ resp' = [NoResp EXCEPT !.op = "upload_and_parse",
                                                     !.task_id = task_id,
                                                     !.file_list = _scan_files(archive)]

upload_and_parse(size, is_zip, archive, extract_ok) ==
    /\ Parked
    /\ UNCHANGED <<clock, ticks, requested, configured, archVars, callVars>>
    /\ IF size > max_upload_size_bytes \/ ~is_zip
       THEN /\ resp' = [NoResp EXCEPT !.op = "upload_and_parse", !.raised = "ValueError"]
            /\ UNCHANGED <<tasks, dirs, pc, local, uuids>>
       ELSE /\ uuids < MaxTasks
            /\ LET task_id == uuids + 1
               IN  /\ uuids' = task_id
                   /\ IF ~extract_ok
                      THEN \* makedirs succeeded, extractall raised on the first member:
                           \* nothing removes the directory
                           /\ dirs' = Put(dirs, task_id, {})
                           /\ resp' = [NoResp EXCEPT !.op = "upload_and_parse",
                                                     !.raised = "ValueError"]
                           /\ UNCHANGED <<tasks, pc, local>>
                      ELSE /\ dirs' = Put(dirs, task_id, archive)
                           /\ tasks' = Put(tasks, task_id,
                                  [task_id |-> task_id,
                                   file_list |-> _scan_files(archive),
                                   directory |-> task_id,
                                   status |-> "processing",
                                   progress |-> 0,
                                   message |-> MsgCreated,
                                   project_data |-> None,
                                   file_summaries |-> <<>>,
                                   created_at |-> clock])
                           /\ pc' = [pc EXCEPT ![task_id] = "queued"]
                           /\ local' = [local EXCEPT ![task_id].file_content = archive]
                           /\ resp' = [NoResp EXCEPT !.op = "upload_and_parse",
                                                     !.task_id = task_id,
                                                     !.file_list = _scan_files(archive)]

(***************************************************************************)
(* ProjectService._parse_project, one step per statement group.            *)
(*   queued        created by asyncio.create_task, not yet started         *)
(*   scan .. complete   inside the try block                               *)
(*   await_enrich / await_diagram   suspended in client.post               *)
(*   raised        an exception is on its way to `except Exception`        *)
(*   finally       the finally block is about to run                       *)
(*   done          the coroutine has ended                                 *)
(* A step may take the event loop only when no other coroutine holds it.  *)
(***************************************************************************)
Runs(id, at) == pc[id] = at /\ (at \in SuspensionPoints => Parked)

Goto(id, to) == pc' = [pc EXCEPT ![id] = to]

Raise(id, error) ==
    /\ pc' = [pc EXCEPT ![id] = "raised"]
    /\ local' = [local EXCEPT ![id].error = error]

\* Step 1 (lines 107-111): progress 10, makedirs, extractall
Unpack(id, fault) ==
    /\ Runs(id, "queued")
    /\ resp' = NoResp
    /\ UNCHANGED <<uuids, clock, ticks, requested, configured, archVars, callVars>>
    /\ IF id \notin DOMAIN tasks
       THEN Raise(id, "KeyError") /\ UNCHANGED <<tasks, dirs>>
       ELSE /\ tasks' = _update_progress(tasks, id, 10, MsgUnpack)
            /\ IF fault
               THEN Raise(id, "OSError") /\ UNCHANGED dirs
               ELSE /\ dirs' = Put(dirs, id,
                           (IF id \in DOMAIN dirs THEN dirs[id] ELSE {})
                               \cup local[id].file_content)
                    /\ Goto(id, "scan")
                    /\ UNCHANGED local

\* Seeded fault for C5: the empty-project branch lacks its `return`.
Scan_NoReturn(id, fault, rmtree_ok) ==
    /\ Runs(id, "scan")
    /\ resp' = NoResp
    /\ UNCHANGED <<uuids, clock, ticks, requested, configured, archVars, callVars>>
    /\ IF id \notin DOMAIN tasks
       THEN Raise(id, "KeyError") /\ UNCHANGED <<tasks, dirs>>
       ELSE LET progressed == _update_progress(tasks, id, 25, MsgScan)
                project_tree == _scan_directory(dirs[id])
            IN  IF fault
                THEN /\ tasks' = progressed
                     /\ Raise(id, "OSError")
                     /\ UNCHANGED dirs
                ELSE IF _is_empty_project(project_tree)
                THEN /\ tasks' = [progressed EXCEPT ![id].status = "failed",
                                                    ![id].message = MsgEmptyProject]
                     /\ dirs' = dirs
                     /\ pc' = [pc EXCEPT ![id] = "extract"]
                     /\ local' = [local EXCEPT ![id].project_tree = Some(project_tree)]
                ELSE /\ tasks' = progressed
                     /\ pc' = [pc EXCEPT ![id] = "extract"]
                     /\ local' = [local EXCEPT ![id].project_tree = Some(project_tree)]
                     /\ UNCHANGED dirs

\* Step 2 (lines 114-122): progress 25, _scan_directory, the empty-project exit
Scan(id, fault, rmtree_ok) ==
    /\ Runs(id, "scan")
    /\ resp' = NoResp
    /\ UNCHANGED <<uuids, clock, ticks, requested, configured, archVars, callVars>>
    /\ IF id \notin DOMAIN tasks
       THEN Raise(id, "KeyError") /\ UNCHANGED <<tasks, dirs>>
       ELSE LET progressed == _update_progress(tasks, id, 25, MsgScan)
                project_tree == _scan_directory(dirs[id])
            IN  IF fault
                THEN /\ tasks' = progressed
                     /\ Raise(id, "OSError")
                     /\ UNCHANGED dirs
                ELSE IF _is_empty_project(project_tree)
                THEN /\ tasks' = [progressed EXCEPT ![id].status = "failed",
                                                    ![id].message = MsgEmptyProject]
                     /\ dirs' = _safe_cleanup(dirs, id, rmtree_ok)
                     /\ pc' = [pc EXCEPT ![id] = "finally"]
                     /\ local' = [local EXCEPT ![id].project_tree = Some(project_tree)]
                ELSE /\ tasks' = progressed
                     /\ pc' = [pc EXCEPT ![id] = "extract"]
                     /\ local' = [local EXCEPT ![id].project_tree = Some(project_tree)]
                     /\ UNCHANGED dirs

\* Step 3 (lines 125-126): progress 40, scan_project_files
Extract(id, fault) ==
    /\ Runs(id, "extract")
    /\ resp' = NoResp
    /\ UNCHANGED <<dirs, uuids, clock, ticks, requested, configured, archVars, callVars>>
    /\ IF id \notin DOMAIN tasks
       THEN Raise(id, "KeyError") /\ UNCHANGED tasks
       ELSE /\ tasks' = _update_progress(tasks, id, 40, MsgExtract)
            /\ IF fault
               THEN Raise(id, "MemoryError")
               ELSE /\ pc' = [pc EXCEPT ![id] = "sanitize"]
                    /\ local' = [local EXCEPT ![id].file_summaries =
                                      scan_project_files(RootParts, dirs[id])]

\* Step 4 (lines 129-130): progress 50, _sanitize_summaries
Sanitize(id, fault) ==
    /\ Runs(id, "sanitize")
    /\ resp' = NoResp
    /\ UNCHANGED <<dirs, uuids, clock, ticks, requested, configured, archVars, callVars>>
    /\ IF id \notin DOMAIN tasks
       THEN Raise(id, "KeyError") /\ UNCHANGED tasks
       ELSE /\ tasks' = _update_progress(tasks, id, 50, MsgSanitize)
            /\ IF fault
               THEN Raise(id, "MemoryError")
               ELSE /\ pc' = [pc EXCEPT ![id] = "enrich"]
                    /\ local' = [local EXCEPT ![id].file_summaries =
                                      _sanitize_summaries(dirs[id], local[id].file_summaries)]

(***************************************************************************)
(* Enrichment helpers (_enrich_tree_with_summaries, _batch_summarize_files,*)
(* _apply_summaries_to_tree).  A summaries_text dictionary is a function   *)
(* from file paths to summary texts.                                       *)
(***************************************************************************)
Take(s, n) == SubSeq(s, 1, IF Len(s) < n THEN Len(s) ELSE n)

LlmSummary == <<"l", "l", "m">>      \* a summary text written by the generator

\* the generator's JSON object: one text per file it was asked about
llm_summaries(files) ==
    [path \in {files[i].file_path : i \in 1..Len(files)} |-> LlmSummary]

\* the `except LLMError` branch: the static description of each file
fallback_summaries(files) ==
    [path \in {files[i].file_path : i \in 1..Len(files)} |->
        _generate_file_description(<<(CHOOSE s \in {files[i] : i \in 1..Len(files)} :
                                        s.file_path = path).file_name>>)]

no_summaries == [path \in {} |-> <<>>]

\* summary_map[file_path]["ai_summary"] = summary_text (absent is <<>>)
with_ai_summary(file_summaries, summaries_text) ==
    [i \in 1..Len(file_summaries) |->
        [file_path |-> file_summaries[i].file_path,
         file_name |-> file_summaries[i].file_name,
         extension |-> file_summaries[i].extension,
         sanitized_preview |-> file_summaries[i].sanitized_preview,
         has_preview |-> file_summaries[i].has_preview,
         ai_summary |-> IF file_summaries[i].file_path \in DOMAIN summaries_text
                        THEN summaries_text[file_summaries[i].file_path]
                        ELSE <<>>]]

RECURSIVE _apply_summaries_to_tree(_, _)
_apply_summaries_to_tree(tree, file_summaries) ==
    IF tree.type = "file"
    THEN LET hits == {i \in 1..Len(file_summaries) :
                         /\ file_summaries[i].file_path = tree.path
                         /\ file_summaries[i].ai_summary /= <<>>}
         IN  IF hits = {} THEN tree
             ELSE [tree EXCEPT !.summary = file_summaries[CHOOSE i \in hits : TRUE].ai_summary]
    ELSE [tree EXCEPT !.children =
             [i \in 1..Len(tree.children) |->
                 _apply_summaries_to_tree(tree.children[i], file_summaries)]]

\* what the rest of _enrich_tree_with_summaries does with a summaries_text
Enriched(id, summaries_text) ==
    LET file_summaries == with_ai_summary(local[id].file_summaries, summaries_text)
    IN  [local EXCEPT ![id].file_summaries = file_summaries,
                      ![id].enriched_tree =
                          Some(_apply_summaries_to_tree(local[id].project_tree[1],
                                                        file_summaries))]

(***************************************************************************)
(* LLMService.chat_completion, as seen by its caller: a request is one     *)
(* client.post; the generator's answers are the Outcomes below.            *)
(***************************************************************************)
EnrichOutcomes == {"json_object", "json_array", "not_json", "http_error", "request_error", "bad_body"}
DiagramOutcomes == {"text", "http_error", "request_error", "bad_body"}

\* Step 5, first half (lines 133-134 up to the first client.post)
Enrich(id) ==
    /\ Runs(id, "enrich")
    /\ resp' = NoResp
    /\ UNCHANGED <<dirs, uuids, clock, ticks, configured, archVars, callVars>>
    /\ IF id \notin DOMAIN tasks
       THEN Raise(id, "KeyError") /\ UNCHANGED <<tasks, requested>>
       ELSE LET files == Take(code_files_for_summary(local[id].file_summaries), 20)
            IN  /\ tasks' = _update_progress(tasks, id, 60, MsgEnrich)
                /\ IF Len(files) = 0
                   THEN /\ local' = Enriched(id, no_summaries)
                        /\ Goto(id, "diagram")
                        /\ UNCHANGED requested
                   ELSE IF ~configured
                   THEN \* chat_completion raises LLMError before any request
                        /\ local' = Enriched(id, fallback_summaries(files))
                        /\ Goto(id, "diagram")
                        /\ UNCHANGED requested
                   ELSE /\ local' = [local EXCEPT ![id].attempt = 0]
                        /\ Goto(id, "await_enrich")
                        /\ requested' = [requested EXCEPT ![id] = TRUE]

\* Step 5, second half: the answer to client.post, the retry loop of
\* chat_completion, validate_and_parse_json and the rest of the stage
EnrichResponse(id, outcome) ==
    /\ Runs(id, "await_enrich")
    /\ resp' = NoResp
    /\ UNCHANGED <<tasks, dirs, uuids, clock, ticks, configured, archVars, callVars>>
    /\ LET files == Take(code_files_for_summary(local[id].file_summaries), 20)
       IN  CASE outcome \in {"http_error", "request_error"} ->
                    IF local[id].attempt < max_retries
                    THEN /\ local' = [local EXCEPT ![id].attempt = @ + 1]
                         /\ requested' = [requested EXCEPT ![id] = TRUE]
                         /\ UNCHANGED pc
                    ELSE \* LLMError after the last attempt: the fallback
                         /\ local' = Enriched(id, fallback_summaries(files))
                         /\ Goto(id, "diagram")
                         /\ UNCHANGED requested
             [] outcome = "bad_body" ->
                    \* response.json() raises: not an LLMError, nobody below catches it
                    Raise(id, "JSONDecodeError") /\ UNCHANGED requested
             [] outcome = "json_object" ->
                    /\ local' = Enriched(id, llm_summaries(files))
                    /\ Goto(id, "diagram")
                    /\ UNCHANGED requested
             [] outcome = "json_array" ->
                    \* json.loads returns a list; parsed.items() raises
                    Raise(id, "AttributeError") /\ UNCHANGED requested
             [] outcome = "not_json" ->
                    \* validate_and_parse_json raises LLMError: the fallback
                    /\ local' = Enriched(id, fallback_summaries(files))
                    /\ Goto(id, "diagram")
                    /\ UNCHANGED requested

(***************************************************************************)
(* ProjectService._generate_fallback_mermaid: one node per first-level     *)
(* folder, in order of first occurrence, chained by arrows.                *)
(***************************************************************************)
\* the text before the first "/" of a file path, <<>> when there is no "/"
first_folder(file_path) ==
    IF \E i \in 1..Len(file_path) : file_path[i] = "/"
    THEN SubSeq(file_path, 1,
             (CHOOSE i \in 1..Len(file_path) :
                  file_path[i] = "/" /\ \A j \in 1..(i - 1) : file_path[j] /= "/") - 1)
    ELSE <<>>

RECURSIVE fallback_folders(_, _)
fallback_folders(file_summaries, seen) ==
    IF Len(file_summaries) = 0 THEN seen
    ELSE LET folder == first_folder(Head(file_summaries).file_path)
         IN  fallback_folders(Tail(file_summaries),
                 IF folder = <<>> \/ \E i \in 1..Len(seen) : seen[i] = folder
                 THEN seen ELSE Append(seen, folder))

_generate_fallback_mermaid(file_summaries) ==
    [source |-> "fallback", folders |-> fallback_folders(file_summaries, <<>>)]

LlmMermaid == [source |-> "llm", folders |-> <<>>]   \* the generator's text, cleaned

\* Step 6, first half (lines 139-140 up to client.post)
Diagram(id) ==
    /\ Runs(id, "diagram")
    /\ resp' = NoResp
    /\ UNCHANGED <<dirs, uuids, clock, ticks, configured, archVars, callVars>>
    /\ IF id \notin DOMAIN tasks
       THEN Raise(id, "KeyError") /\ UNCHANGED <<tasks, requested>>
       ELSE /\ tasks' = _update_progress(tasks, id, 80, MsgDiagram)
            /\ IF ~configured
               THEN /\ local' = [local EXCEPT ![id].mermaid_diagram =
                                     Some(_generate_fallback_mermaid(local[id].file_summaries))]
                    /\ Goto(id, "finalize")
                    /\ UNCHANGED requested
               ELSE /\ local' = [local EXCEPT ![id].attempt = 0]
                    /\ Goto(id, "await_diagram")
                    /\ requested' = [requested EXCEPT ![id] = TRUE]

\* Step 6, second half: the answer to client.post and the retry loop
DiagramResponse(id, outcome) ==
    /\ Runs(id, "await_diagram")
    /\ resp' = NoResp
    /\ UNCHANGED <<tasks, dirs, uuids, clock, ticks, configured, archVars, callVars>>
    /\ CASE outcome \in {"http_error", "request_error"} ->
                IF local[id].attempt < max_retries
                THEN /\ local' = [local EXCEPT ![id].attempt = @ + 1]
                     /\ requested' = [requested EXCEPT ![id] = TRUE]
                     /\ UNCHANGED pc
                ELSE /\ local' = [local EXCEPT ![id].mermaid_diagram =
                                      Some(_generate_fallback_mermaid(local[id].file_summaries))]
                     /\ Goto(id, "finalize")
                     /\ UNCHANGED requested
         [] outcome = "bad_body" ->
                Raise(id, "JSONDecodeError") /\ UNCHANGED requested
         [] outcome = "text" ->
                /\ local' = [local EXCEPT ![id].mermaid_diagram = Some(LlmMermaid)]
                /\ Goto(id, "finalize")
                /\ UNCHANGED requested

\* Step 7 (lines 145-150): progress 95, project_data, file_summaries
Finalize(id) ==
    /\ Runs(id, "finalize")
    /\ resp' = NoResp
    /\ UNCHANGED <<dirs, uuids, clock, ticks, requested, configured, archVars, callVars>>
    /\ IF id \notin DOMAIN tasks
       THEN Raise(id, "KeyError") /\ UNCHANGED tasks
       ELSE /\ tasks' = [_update_progress(tasks, id, 95, MsgFinalize) EXCEPT
                            ![id].project_data =
                                Some([tree |-> local[id].enriched_tree[1],
                                      mermaid_diagram |-> local[id].mermaid_diagram[1]]),
                            ![id].file_summaries = local[id].file_summaries]
            /\ Goto(id, "complete")
            /\ UNCHANGED local

\* Seeded fault for C1: completion writes progress 10 instead of 100.
Complete_LowProgress(id) ==
    /\ Runs(id, "complete")
    /\ resp' = NoResp
    /\ UNCHANGED <<dirs, uuids, clock, ticks, requested, configured, archVars, callVars>>
    /\ IF id \notin DOMAIN tasks
       THEN Raise(id, "KeyError") /\ UNCHANGED tasks
       ELSE /\ tasks' = [tasks EXCEPT ![id].status = "completed",
                                      ![id].progress = 10,
                                      ![id].message = MsgCompleted]
            /\ Goto(id, "finally")
            /\ UNCHANGED local

\* lines 153-155: status, progress and message of completion
Complete(id) ==
    /\ Runs(id, "complete")
    /\ resp' = NoResp
    /\ UNCHANGED <<dirs, uuids, clock, ticks, requested, configured, archVars, callVars>>
    /\ IF id \notin DOMAIN tasks
       THEN Raise(id, "KeyError") /\ UNCHANGED tasks
       ELSE /\ tasks' = [tasks EXCEPT ![id].status = "completed",
                                      ![id].progress = 100,
                                      ![id].message = MsgCompleted]
            /\ Goto(id, "finally")
            /\ UNCHANGED local

\* Seeded fault for C4: the handler also resets the progress.
HandleException_ResetsProgress(id) ==
    /\ Runs(id, "raised")
    /\ resp' = NoResp
    /\ UNCHANGED <<dirs, local, uuids, clock, ticks, requested, configured, archVars, callVars>>
    /\ Goto(id, "finally")
    /\ IF id \in DOMAIN tasks
       THEN tasks' = [tasks EXCEPT ![id].status = "failed",
                                   ![id].progress = 0,
                                   ![id].message = MsgFailed(local[id].error)]
       ELSE UNCHANGED tasks

\* Seeded fault for C12: the handler only logs; the task stays as it was.
HandleException_OnlyLogs(id) ==
    /\ Runs(id, "raised")
    /\ resp' = NoResp
    /\ UNCHANGED <<tasks, dirs, local, uuids, clock, ticks, requested, configured, archVars, callVars>>
    /\ Goto(id, "finally")

\* lines 157-160: except Exception.  With the task gone the handler itself
\* raises KeyError, which leaves through the finally block.
HandleException(id) ==
    /\ Runs(id, "raised")
    /\ resp' = NoResp
    /\ UNCHANGED <<dirs, local, uuids, clock, ticks, requested, configured, archVars, callVars>>
    /\ Goto(id, "finally")
    /\ IF id \in DOMAIN tasks
       THEN tasks' = [tasks EXCEPT ![id].status = "failed",
                                   ![id].message = MsgFailed(local[id].error)]
       ELSE UNCHANGED tasks

\* Seeded fault for C2: the finally block also rewrites the task's message.
Finally_WritesMessage(id, rmtree_ok) ==
    /\ Runs(id, "finally")
    /\ resp' = NoResp
    /\ UNCHANGED <<uuids, clock, ticks, requested, configured, archVars, callVars>>
    /\ tasks' = IF id \in DOMAIN tasks
                THEN [tasks EXCEPT ![id].message = <<"cleaned">>] ELSE tasks
    /\ dirs' = _safe_cleanup(dirs, id, rmtree_ok)
    /\ Goto(id, "done")
    /\ local' = [local EXCEPT ![id] = [NoLocal EXCEPT !.file_content = local[id].file_content]]

\* lines 161-163: finally, _safe_cleanup(temp_dir); the coroutine ends
Finally(id, rmtree_ok) ==
    /\ Runs(id, "finally")
    /\ resp' = NoResp
    /\ UNCHANGED <<tasks, uuids, clock, ticks, requested, configured, archVars, callVars>>
    /\ dirs' = _safe_cleanup(dirs, id, rmtree_ok)
    /\ Goto(id, "done")
    \* the frame is gone; its argument stays as the record of what was uploaded
    /\ local' = [local EXCEPT ![id] = [NoLocal EXCEPT !.file_content = local[id].file_content]]

(***************************************************************************)
(* The queries.                                                            *)
(***************************************************************************)
\* Seeded fault for C8: the registry is indexed without the membership test.
get_task_status_Unchecked(id) ==
    /\ Parked
    /\ UNCHANGED <<tasks, dirs, pc, local, uuids, clock, ticks, requested, configured, archVars, callVars>>
    /\ resp' = IF id \notin DOMAIN tasks
               THEN [NoResp EXCEPT !.op = "get_task_status", !.task_id = id,
                                   !.raised = "KeyError"]
               ELSE [NoResp EXCEPT !.op = "get_task_status", !.task_id = id,
                                   !.status = tasks[id].status,
                                   !.progress = tasks[id].progress,
                                   !.message = tasks[id].message]

get_task_status(id) ==
    /\ Parked
    /\ UNCHANGED <<tasks, dirs, pc, local, uuids, clock, ticks, requested, configured, archVars, callVars>>
    /\ resp' = IF id \notin DOMAIN tasks
               THEN [NoResp EXCEPT !.op = "get_task_status", !.task_id = id,
                                   !.status = "not_found", !.message = MsgNotFound]
               ELSE [NoResp EXCEPT !.op = "get_task_status", !.task_id = id,
                                   !.status = tasks[id].status,
                                   !.progress = tasks[id].progress,
                                   !.message = tasks[id].message]

\* Seeded fault for C9: the status test is inverted.
get_project_data_Inverted(id) ==
    /\ Parked
    /\ UNCHANGED <<tasks, dirs, pc, local, uuids, clock, ticks, requested, configured, archVars, callVars>>
    /\ resp' = IF id \notin DOMAIN tasks \/ tasks[id].status = "completed"
               THEN [NoResp EXCEPT !.op = "get_project_data", !.task_id = id]
               ELSE [NoResp EXCEPT !.op = "get_project_data", !.task_id = id,
                                   !.data = tasks[id].project_data]

get_project_data(id) ==
    /\ Parked
    /\ UNCHANGED <<tasks, dirs, pc, local, uuids, clock, ticks, requested, configured, archVars, callVars>>
    /\ resp' = IF id \notin DOMAIN tasks \/ tasks[id].status /= "completed"
               THEN [NoResp EXCEPT !.op = "get_project_data", !.task_id = id]
               ELSE [NoResp EXCEPT !.op = "get_project_data", !.task_id = id,
                                   !.data = tasks[id].project_data]

\* Seeded fault for C28: the query drops a record that is past its expiry.
get_file_summaries_Evicts(id) ==
    /\ Parked
    /\ UNCHANGED <<dirs, pc, local, uuids, clock, ticks, requested, configured, archVars, callVars>>
    /\ tasks' = Drop(tasks, {task_id \in DOMAIN tasks :
                     task_id = id /\ clock - tasks[task_id].created_at > TASK_EXPIRY_SECONDS})
    /\ resp' = IF id \notin DOMAIN tasks \/ tasks[id].status /= "completed"
               THEN [NoResp EXCEPT !.op = "get_file_summaries", !.task_id = id]
               ELSE [NoResp EXCEPT !.op = "get_file_summaries", !.task_id = id,
                                   !.data = tasks[id].file_summaries]

get_file_summaries(id) ==
    /\ Parked
    /\ UNCHANGED <<tasks, dirs, pc, local, uuids, clock, ticks, requested, configured, archVars, callVars>>
    /\ resp' = IF id \notin DOMAIN tasks \/ tasks[id].status /= "completed"
               THEN [NoResp EXCEPT !.op = "get_file_summaries", !.task_id = id]
               ELSE [NoResp EXCEPT !.op = "get_file_summaries", !.task_id = id,
                                   !.data = tasks[id].file_summaries]

(***************************************************************************)
(* ProjectService._cleanup_expired_tasks and the passing of time.          *)
(***************************************************************************)
\* Seeded fault for C10: the age test is >= instead of >.
_cleanup_expired_tasks_AtExpiry ==
    /\ Parked
    /\ UNCHANGED <<dirs, pc, local, uuids, clock, ticks, requested, configured, archVars, callVars>>
    /\ LET current_time == clock
           expired_task_ids == {task_id \in DOMAIN tasks :
               current_time - tasks[task_id].created_at >= TASK_EXPIRY_SECONDS}
       IN  tasks' = Drop(tasks, expired_task_ids)
    /\ resp' = [NoResp EXCEPT !.op = "_cleanup_expired_tasks"]

_cleanup_expired_tasks ==
    /\ Parked
    /\ UNCHANGED <<dirs, pc, local, uuids, clock, ticks, requested, configured, archVars, callVars>>
    /\ LET current_time == clock
           expired_task_ids == {task_id \in DOMAIN tasks :
               current_time - tasks[task_id].created_at > TASK_EXPIRY_SECONDS}
       IN  tasks' = Drop(tasks, expired_task_ids)
    /\ resp' = [NoResp EXCEPT !.op = "_cleanup_expired_tasks"]

Tick(seconds) ==
    /\ Parked
    /\ ticks < MaxTicks
    /\ clock' = clock + seconds
    /\ ticks' = ticks + 1
    /\ resp' = NoResp
    /\ UNCHANGED <<tasks, dirs, pc, local, uuids, requested, configured, archVars, callVars>>

(***************************************************************************)
(* The system.                                                             *)
(***************************************************************************)
Next ==
    \/ \E u \in UploadInputs : upload_and_parse(u.size, u.is_zip, u.archive, u.extract_ok)
    \/ \E id \in Ids, fault \in BOOLEAN : Unpack(id, fault)
    \/ \E id \in Ids, fault \in BOOLEAN, rmtree_ok \in BOOLEAN : Scan(id, fault, rmtree_ok)
    \/ \E id \in Ids, fault \in BOOLEAN : Extract(id, fault)
    \/ \E id \in Ids, fault \in BOOLEAN : Sanitize(id, fault)
    \/ \E id \in Ids : Enrich(id)
    \/ \E id \in Ids, outcome \in EnrichOutcomes : EnrichResponse(id, outcome)
    \/ \E id \in Ids : Diagram(id)
    \/ \E id \in Ids, outcome \in DiagramOutcomes : DiagramResponse(id, outcome)
    \/ \E id \in Ids : Finalize(id)
    \/ \E id \in Ids : Complete(id)
    \/ \E id \in Ids : HandleException(id)
    \/ \E id \in Ids, rmtree_ok \in BOOLEAN : Finally(id, rmtree_ok)
    \/ \E id \in Ids : get_task_status(id)
    \/ \E id \in Ids : get_project_data(id)
    \/ \E id \in Ids : get_file_summaries(id)
    \/ _cleanup_expired_tasks
    \/ \E seconds \in TickSeconds : Tick(seconds)

Spec == Init /\ [][Next]_vars

(***************************************************************************)
(* The program as it runs: nothing calls _cleanup_expired_tasks, so the    *)
(* steps are the uploads, the pipelines and the queries.  The event loop   *)
(* runs every coroutine that is ready, and client.post returns or raises   *)
(* within its 60 s timeout: a pipeline that can take a step eventually     *)
(* takes one (weak fairness of Pipeline(id)).                              *)
(***************************************************************************)
Pipeline(id) ==
    \/ \E fault \in BOOLEAN : Unpack(id, fault)
    \/ \E fault \in BOOLEAN, rmtree_ok \in BOOLEAN : Scan(id, fault, rmtree_ok)
    \/ \E fault \in BOOLEAN : Extract(id, fault)
    \/ \E fault \in BOOLEAN : Sanitize(id, fault)
    \/ Enrich(id)
    \/ \E outcome \in EnrichOutcomes : EnrichResponse(id, outcome)
    \/ Diagram(id)
    \/ \E outcome \in DiagramOutcomes : DiagramResponse(id, outcome)
    \/ Finalize(id)
    \/ Complete(id)
    \/ HandleException(id)
    \/ \E rmtree_ok \in BOOLEAN : Finally(id, rmtree_ok)

RunningInputs ==
    { Upload(max_upload_size_bytes + 1, TRUE, ArchKey, TRUE),
      Upload(1024, FALSE, {}, TRUE),
      Upload(1024, TRUE, ArchKey, FALSE) }
    \cup {Upload(1024, TRUE, archive, TRUE) : archive \in {ArchImage, ArchBlank, ArchKey}}

NextRunning ==
    \/ \E u \in RunningInputs : upload_and_parse(u.size, u.is_zip, u.archive, u.extract_ok)
    \/ \E id \in Ids : Pipeline(id)
    \/ \E id \in Ids : get_task_status(id)
    \/ \E id \in Ids : get_project_data(id)
    \/ \E id \in Ids : get_file_summaries(id)

\* ENABLED <<Pipeline(id)>>_vars, written out: the coroutine exists, has not
\* ended, and the event loop is free if it is suspended (every step of
\* Pipeline(id) changes pc[id] or local[id].attempt)
Ready(id) ==
    /\ pc[id] \notin {"none", "done"}
    /\ pc[id] \in SuspensionPoints => Parked

\* WF_vars(Pipeline(id)) with its ENABLED replaced by Ready(id)
Fair(id) == ([]<>~Ready(id)) \/ ([]<><<Pipeline(id)>>_vars)

SpecRunning ==
    /\ Init
    /\ [][NextRunning]_vars
    /\ \A id \in Ids : Fair(id)

(***************************************************************************)
(* app/services/architecture_service.py behind the route                   *)
(* GET /architecture/visualization.  A visualization has three parts, each *)
(* either the built-in default or the text the generator wrote for the     *)
(* caller that asked (two answers of the generator need not agree).        *)
(***************************************************************************)
DefaultPart == <<"default">>
GeneratedPart(c) == <<"llm", c>>

HttpResponse(task_id, status_code, data) ==
    [NoResp EXCEPT !.op = "get_architecture_visualization", !.task_id = task_id,
                   !.status = status_code, !.data = data]

VizOutcomes == {"llm", "default", "bad_body"}

\* routes.get_architecture_visualization and, inside it,
\* generate_architecture_visualization up to its first suspension
get_architecture_visualization(c, task_id) ==
    /\ Parked
    /\ viz[c].pc = "idle"
    /\ UNCHANGED <<tasks, dirs, pc, local, uuids, clock, ticks, requested, configured, callVars>>
    /\ LET task_status == IF task_id \in DOMAIN tasks THEN tasks[task_id].status
                          ELSE "not_found"
           project_data == IF task_id \notin DOMAIN tasks \/ tasks[task_id].status /= "completed"
                           THEN None ELSE tasks[task_id].project_data
       IN  IF task_status = "not_found"
           THEN resp' = HttpResponse(task_id, "404", None) /\ UNCHANGED archVars
           ELSE IF task_status = "processing"
           THEN resp' = HttpResponse(task_id, "202", None) /\ UNCHANGED archVars
           ELSE IF task_status = "failed"
           THEN resp' = HttpResponse(task_id, "400", None) /\ UNCHANGED archVars
           ELSE IF task_id \in DOMAIN _cache
           THEN \* cache hit
                resp' = HttpResponse(task_id, "200", Some(_cache[task_id])) /\ UNCHANGED archVars
           ELSE IF project_data = None
           THEN \* ValueError, turned into 404 by the route
                resp' = HttpResponse(task_id, "404", None) /\ UNCHANGED archVars
           ELSE IF ~configured
           THEN \* every generate_json raises LLMError before any request:
                \* three defaults, no suspension
                LET result == [layers |-> DefaultPart, scenarios |-> DefaultPart,
                               techTerms |-> DefaultPart]
                IN  /\ _cache' = Put(_cache, task_id, result)
                    /\ resp' = HttpResponse(task_id, "200", Some(result))
                    /\ UNCHANGED viz
           ELSE /\ viz' = [viz EXCEPT ![c] = [NoViz EXCEPT !.pc = "await_layers",
                                                          !.task_id = task_id]]
                /\ resp' = NoResp
                /\ UNCHANGED _cache

\* the generator's answer to _generate_layers, _generate_scenarios or
\* _generate_tech_terms: "llm" is usable JSON, "default" is an LLMError
\* (caught, default used), "bad_body" is response.json() raising
\* JSONDecodeError, a ValueError that only the route catches
VisualizationResponse(c, outcome) ==
    /\ Parked
    /\ viz[c].pc \in {"await_layers", "await_scenarios", "await_terms"}
    /\ UNCHANGED <<tasks, dirs, pc, local, uuids, clock, ticks, requested, configured, callVars>>
    /\ LET task_id == viz[c].task_id
           part == IF outcome = "llm" THEN GeneratedPart(c) ELSE DefaultPart
       IN  IF outcome = "bad_body"
           THEN /\ viz' = [viz EXCEPT ![c] = NoViz]
                /\ resp' = HttpResponse(task_id, "404", None)
                /\ UNCHANGED _cache
           ELSE IF viz[c].pc = "await_layers"
           THEN /\ viz' = [viz EXCEPT ![c].pc = "await_scenarios", ![c].layers = Some(part)]
                /\ resp' = NoResp
                /\ UNCHANGED _cache
           ELSE IF viz[c].pc = "await_scenarios"
           THEN /\ viz' = [viz EXCEPT ![c].pc = "await_terms", ![c].scenarios = Some(part)]
                /\ resp' = NoResp
                /\ UNCHANGED _cache
           ELSE LET result == [layers |-> viz[c].layers[1],
                               scenarios |-> viz[c].scenarios[1],
                               techTerms |-> part]
                IN  /\ _cache' = Put(_cache, task_id, result)
                    /\ viz' = [viz EXCEPT ![c] = NoViz]
                    /\ resp' = HttpResponse(task_id, "200", Some(result))

(***************************************************************************)
(* The two services together: an accepted upload, its pipeline, the        *)
(* passing of a day, the sweep, and clients asking for the visualization.  *)
(***************************************************************************)
NextArch ==
    \/ upload_and_parse(1024, TRUE, ArchMixed, TRUE)
    \/ \E id \in Ids : Unpack(id, FALSE)
    \/ \E id \in Ids : Scan(id, FALSE, TRUE)
    \/ \E id \in Ids : Extract(id, FALSE)
    \/ \E id \in Ids : Sanitize(id, FALSE)
    \/ \E id \in Ids : Enrich(id)
    \/ \E id \in Ids : EnrichResponse(id, "json_object")
    \/ \E id \in Ids : Diagram(id)
    \/ \E id \in Ids : DiagramResponse(id, "text")
    \/ \E id \in Ids : Finalize(id)
    \/ \E id \in Ids : Complete(id)
    \/ \E id \in Ids : Finally(id, TRUE)
    \/ _cleanup_expired_tasks
    \/ Tick(25 * Hour)
    \/ \E c \in Callers, id \in Ids : get_architecture_visualization(c, id)
    \/ \E c \in Callers, outcome \in VizOutcomes : VisualizationResponse(c, outcome)

SpecArch == Init /\ [][NextArch]_vars

(***************************************************************************)
(* app/services/llm_service.py: validate_and_parse_json.                   *)
(* A text is a sequence of characters.  json.loads is modelled by a        *)
(* recursive-descent reader of the JSON grammar restricted to unsigned     *)
(* integers, strings without escapes, arrays and objects.  A JSON value is *)
(* a pair <<kind, payload>>: <<"int", digits>>, <<"str", characters>>,     *)
(* <<"list", values>>, <<"dict", [key -> value]>>.                         *)
(***************************************************************************)
Whitespace == {" ", "\n", "\t", "\r"}

Digits == {"0", "1", "2", "3", "4", "5", "6", "7", "8", "9"}

RECURSIVE lstrip(_)
lstrip(s) == IF Len(s) > 0 /\ Head(s) \in Whitespace THEN lstrip(Tail(s)) ELSE s

RECURSIVE rstrip(_)
rstrip(s) ==
    IF Len(s) > 0 /\ s[Len(s)] \in Whitespace THEN rstrip(SubSeq(s, 1, Len(s) - 1)) ELSE s

\* str.strip()
strip(s) == rstrip(lstrip(s))

\* str.find(c) and str.rfind(c) for one character, 1-based, 0 when absent
find(s, c) ==
    IF \E i \in 1..Len(s) : s[i] = c
    THEN CHOOSE i \in 1..Len(s) : s[i] = c /\ \A j \in 1..(i - 1) : s[j] /= c
    ELSE 0

rfind(s, c) ==
    IF \E i \in 1..Len(s) : s[i] = c
    THEN CHOOSE i \in 1..Len(s) : s[i] = c /\ \A j \in (i + 1)..Len(s) : s[j] /= c
    ELSE 0

\* str.split("\n")
RECURSIVE split_lines(_)
split_lines(s) ==
    LET i == find(s, "\n")
    IN  IF i = 0 THEN <<s>>
        ELSE <<SubSeq(s, 1, i - 1)>> \o split_lines(SubSeq(s, i + 1, Len(s)))

\* "\n".join(lines)
RECURSIVE join_lines(_)
join_lines(lines) ==
    IF Len(lines) = 0 THEN <<>>
    ELSE IF Len(lines) = 1 THEN lines[1]
    ELSE lines[1] \o <<"\n">> \o join_lines(Tail(lines))

ParseFail == [ok |-> FALSE, value |-> <<>>, next |-> 0]

Parsed(value, next) == [ok |-> TRUE, value |-> value, next |-> next]

\* the first position at or after i that holds no JSON whitespace
skip_ws(s, i) ==
    CHOOSE j \in i..(Len(s) + 1) :
        /\ \A k \in i..(j - 1) : s[k] \in Whitespace
        /\ j = Len(s) + 1 \/ s[j] \notin Whitespace

\* an unsigned integer: "0", or a run of digits that does not start with "0"
parse_number(s, i) ==
    IF s[i] = "0" THEN Parsed(<<"int", <<"0">>>>, i + 1)
    ELSE LET j == CHOOSE j \in (i + 1)..(Len(s) + 1) :
                      /\ \A k \in i..(j - 1) : s[k] \in Digits
                      /\ j = Len(s) + 1 \/ s[j] \notin Digits
         IN  Parsed(<<"int", SubSeq(s, i, j - 1)>>, j)

\* a string: from the quote at i to the next quote, no control character and
\* no backslash in between
parse_string(s, i) ==
    IF \E j \in (i + 1)..Len(s) : s[j] = "\""
    THEN LET j == CHOOSE j \in (i + 1)..Len(s) :
                      s[j] = "\"" /\ \A k \in (i + 1)..(j - 1) : s[k] /= "\""
             body == SubSeq(s, i + 1, j - 1)
         IN  IF \E k \in 1..Len(body) : body[k] \in {"\n", "\t", "\r", "\\"}
             THEN ParseFail
             ELSE Parsed(<<"str", body>>, j + 1)
    ELSE ParseFail

RECURSIVE parse_value(_, _)
RECURSIVE parse_elements(_, _, _)
RECURSIVE parse_members(_, _, _)

\* the value that starts at position i (whitespace already skipped)
parse_value(s, i) ==
    IF i > Len(s) THEN ParseFail
    ELSE IF s[i] = "[" THEN
        LET j == skip_ws(s, i + 1)
        IN  IF j <= Len(s) /\ s[j] = "]" THEN Parsed(<<"list", <<>>>>, j + 1)
            ELSE parse_elements(s, j, <<>>)
    ELSE IF s[i] = "{" THEN
        LET j == skip_ws(s, i + 1)
        IN  IF j <= Len(s) /\ s[j] = "}"
            THEN Parsed(<<"dict", [k \in {} |-> <<>>]>>, j + 1)
            ELSE parse_members(s, j, [k \in {} |-> <<>>])
    ELSE IF s[i] = "\"" THEN parse_string(s, i)
    ELSE IF s[i] \in Digits THEN parse_number(s, i)
    ELSE ParseFail

\* the elements of an array, the next one expected at position i
parse_elements(s, i, acc) ==
    LET v == parse_value(s, i)
    IN  IF ~v.ok THEN ParseFail
        ELSE LET k == skip_ws(s, v.next)
             IN  IF k > Len(s) THEN ParseFail
                 ELSE IF s[k] = ","
                 THEN parse_elements(s, skip_ws(s, k + 1), Append(acc, v.value))
                 ELSE IF s[k] = "]" THEN Parsed(<<"list", Append(acc, v.value)>>, k + 1)
                 ELSE ParseFail

\* the members of an object, the next key expected at position i
parse_members(s, i, acc) ==
    IF i > Len(s) \/ s[i] /= "\"" THEN ParseFail
    ELSE LET key == parse_string(s, i)
         IN  IF ~key.ok THEN ParseFail
             ELSE LET c == skip_ws(s, key.next)
                  IN  IF c > Len(s) \/ s[c] /= ":" THEN ParseFail
                      ELSE LET v == parse_value(s, skip_ws(s, c + 1))
                           IN  IF ~v.ok THEN ParseFail
                               ELSE LET k == skip_ws(s, v.next)
                                        obj == Put(acc, key.value[2], v.value)
                                    IN  IF k > Len(s) THEN ParseFail
                                        ELSE IF s[k] = ","
                                        THEN parse_members(s, skip_ws(s, k + 1), obj)
                                        ELSE IF s[k] = "}"
                                        THEN Parsed(<<"dict", obj>>, k + 1)
                                        ELSE ParseFail

NotJson == [ok |-> FALSE, value |-> <<>>]

\* json.loads(text): one JSON value with only whitespace around it; ok is FALSE
\* where json.loads raises JSONDecodeError
json_loads(text) ==
    LET v == parse_value(text, skip_ws(text, 1))
    IN  IF v.ok /\ skip_ws(text, v.next) = Len(text) + 1
        THEN [ok |-> TRUE, value |-> v.value]
        ELSE NotJson

\* the backquote character, which a string of this module cannot hold
Backquote == "backquote"

Fence == <<Backquote, Backquote, Backquote>>

Items == <<"i", "t", "e", "m", "s">>

\* the outcome of a call: a returned value, or LLMError with the text its
\* message quotes
Returned(value) == [raised |-> "", value |-> value, preview |-> <<>>]

LLMError(preview) == [raised |-> "LLMError", value |-> <<>>, preview |-> preview]

\* strategy 2: the lines between the fence lines of a Markdown code block
fenced_text(cleaned) ==
    LET lines == split_lines(cleaned)
        plain == {i \in 1..Len(lines) : ~startswith(strip(lines[i]), Fence)}
        start_index == IF plain = {} THEN 0
                       ELSE (CHOOSE i \in plain : \A j \in plain : i <= j) - 1
        end_index == IF plain = {} THEN Len(lines)
                     ELSE CHOOSE i \in plain : \A j \in plain : j <= i
    IN  IF startswith(cleaned, Fence) /\ start_index < end_index
        THEN json_loads(strip(join_lines(SubSeq(lines, start_index + 1, end_index))))
        ELSE NotJson

\* strategies 3 and 4: the text from the first opening to the last closing
\* delimiter
delimited_text(cleaned, open, close) ==
    LET first == find(cleaned, open)
        last == rfind(cleaned, close)
    IN  IF first /= 0 /\ last /= 0 /\ last > first
        THEN json_loads(SubSeq(cleaned, first, last))
        ELSE NotJson

\* a variant that answers an empty object where no strategy succeeds
validate_and_parse_json_EmptyOnFailure(raw_text) ==
    LET cleaned == strip(raw_text)
        direct == json_loads(cleaned)
        fenced == fenced_text(cleaned)
        braced == delimited_text(cleaned, "{", "}")
        bracketed == delimited_text(cleaned, "[", "]")
    IN  IF direct.ok THEN Returned(direct.value)
        ELSE IF fenced.ok THEN Returned(fenced.value)
        ELSE IF braced.ok THEN Returned(braced.value)
        ELSE IF bracketed.ok
        THEN Returned(<<"dict", Put([k \in {} |-> <<>>], Items, bracketed.value)>>)
        ELSE Returned(<<"dict", [k \in {} |-> <<>>]>>)

validate_and_parse_json(raw_text) ==
    LET cleaned == strip(raw_text)
        direct == json_loads(cleaned)
        fenced == fenced_text(cleaned)
        braced == delimited_text(cleaned, "{", "}")
        bracketed == delimited_text(cleaned, "[", "]")
    IN  IF direct.ok THEN Returned(direct.value)
        ELSE IF fenced.ok THEN Returned(fenced.value)
        ELSE IF braced.ok THEN Returned(braced.value)
        ELSE IF bracketed.ok
        THEN Returned(<<"dict", Put([k \in {} |-> <<>>], Items, bracketed.value)>>)
        ELSE LLMError(Take(cleaned, 200))

\* The texts handed to validate_and_parse_json: every text of at most
\* MaxJsonLen characters over JsonAlphabet, and the longer answers below.
JsonAlphabet == {"[", "]", "{", "}", "1", ",", " ", "x"}

Texts(alphabet, n) == UNION {[1..k -> alphabet] : k \in 0..n}

\* a Markdown code block tagged json that holds {"a":1}
FencedObject ==
    Fence \o <<"j", "s", "o", "n", "\n", "{", "\"", "a", "\"", ":", "1", "}", "\n">> \o Fence

\* an array of objects, [{"a":1},{"a":1}]
ArrayOfObjects ==
    <<"[", "{", "\"", "a", "\"", ":", "1", "}", ",",
           "{", "\"", "a", "\"", ":", "1", "}", "]">>

\* an array inside a sentence
ProseArray == <<"x", "x", " ", "[", "1", ",", " ", "1", "]", " ", "x">>

\* an object inside a sentence
ProseObject == <<"x", " ", "{", "\"", "a", "\"", ":", "[", "1", "]", "}", " ", "x">>

\* prose, a broken array and a broken answer, each longer than the quoted part
\* of the error message
LongProse == [i \in 1..(200 + MaxJsonLen) |-> "x"]

LongBroken == <<" ", "[">> \o LongProse \o <<"\n">>

JsonTexts ==
    Texts(JsonAlphabet, MaxJsonLen)
        \cup {FencedObject, ArrayOfObjects, ProseArray, ProseObject, LongProse, LongBroken,
              Fence, Fence \o <<"\n">> \o Fence, Fence \o <<"\n", "x", "\n">> \o Fence}

\* one call of validate_and_parse_json on the text held in arg
CallValidateAndParseJson ==
    /\ ret = None
    /\ ret' = Some(validate_and_parse_json(arg))
    /\ UNCHANGED <<tasks, dirs, pc, local, uuids, clock, ticks, resp, requested, configured,
                   archVars, arg, chat>>

InitJson == Constructed /\ arg \in JsonTexts /\ ret = None

NextJson == CallValidateAndParseJson

SpecJson == InitJson /\ [][NextJson]_vars

(***************************************************************************)
(* app/utils/chunker.py: chunk_code.                                       *)
(***************************************************************************)
MAX_CHUNK_CHARS == 2000

\* the loop over the lines still to place: chunks closed so far, the lines of
\* the open chunk and their length, one more than its characters per line
RECURSIVE chunk_lines(_, _, _, _, _)
chunk_lines(lines, chunks, current_chunk_lines, current_length, max_chars) ==
    IF lines = <<>>
    THEN IF current_chunk_lines /= <<>>
         THEN Append(chunks, join_lines(current_chunk_lines))
         ELSE chunks
    ELSE LET line == Head(lines)
             line_length == Len(line) + 1
             full == current_length + line_length > max_chars /\ current_chunk_lines /= <<>>
         IN  chunk_lines(Tail(lines),
                         IF full THEN Append(chunks, join_lines(current_chunk_lines)) ELSE chunks,
                         Append(IF full THEN <<>> ELSE current_chunk_lines, line),
                         (IF full THEN 0 ELSE current_length) + line_length,
                         max_chars)

\* a variant that trims every chunk
chunk_code_StripsChunks(content, max_chars) ==
    IF Len(content) <= max_chars THEN <<content>>
    ELSE LET chunks == chunk_lines(split_lines(content), <<>>, <<>>, 0, max_chars)
         IN  [i \in 1..Len(chunks) |-> strip(chunks[i])]

\* a variant that never splits
chunk_code_OneChunk(content, max_chars) == <<content>>

\* a variant without the early return for a short text
chunk_code_NoShortcut(content, max_chars) ==
    chunk_lines(split_lines(content), <<>>, <<>>, 0, max_chars)

chunk_code(content, max_chars) ==
    IF Len(content) <= max_chars THEN <<content>>
    ELSE chunk_lines(split_lines(content), <<>>, <<>>, 0, max_chars)

\* The calls of chunk_code: every text of at most MaxTextLen characters over
\* two letters and the newline, with every limit from 1 to MaxChars and with
\* the default limit.
CodeAlphabet == {"a", "b", "\n"}

ChunkCalls ==
    [content : Texts(CodeAlphabet, MaxTextLen), max_chars : (1..MaxChars) \cup {MAX_CHUNK_CHARS}]

\* one call of chunk_code with the arguments held in arg
CallChunkCode ==
    /\ ret = None
    /\ ret' = Some(chunk_code(arg.content, arg.max_chars))
    /\ UNCHANGED <<tasks, dirs, pc, local, uuids, clock, ticks, resp, requested, configured,
                   archVars, arg, chat>>

InitChunk == Constructed /\ arg \in ChunkCalls /\ ret = None

NextChunk == CallChunkCode

SpecChunk == InitChunk /\ [][NextChunk]_vars

(***************************************************************************)
(* app/utils/chunker.py: should_skip_path as a function of its own.        *)
(***************************************************************************)
\* The segments paths are made of: blocked directory names, names that hold
\* a blocked name as a prefix or in another case, plain names, and file names
\* with and without a blocked ending.
Segments ==
    { <<"n", "o", "d", "e", "_", "m", "o", "d", "u", "l", "e", "s">>,
      <<".", "g", "i", "t">>,
      <<"v", "e", "n", "d", "o", "r", "s">>,
      <<"D", "i", "s", "t">>,
      <<"s", "r", "c">>,
      <<"a", "p", "p">>,
      <<"m", "a", "i", "n", ".", "p", "y">>,
      <<"l", "o", "g", "o", ".", "P", "N", "G">>,
      <<"b", "u", "n", "d", "l", "e", ".", "m", "i", "n", ".", "j", "s">>,
      <<"x", ".", "s", "o">> }

\* every relative path of 1 to MaxDepth segments
SkipPaths == UNION {[1..k -> Segments] : k \in 1..MaxDepth}

\* one call of should_skip_path on the path held in arg
CallShouldSkipPath ==
    /\ ret = None
    /\ ret' = Some(should_skip_path(arg))
    /\ UNCHANGED <<tasks, dirs, pc, local, uuids, clock, ticks, resp, requested, configured,
                   archVars, arg, chat>>

InitSkip == Constructed /\ arg \in SkipPaths /\ ret = None

NextSkip == CallShouldSkipPath

SpecSkip == InitSkip /\ [][NextSkip]_vars

(***************************************************************************)
(* app/utils/sanitizer.py: SANITIZE_RULES and sanitize_code on the         *)
(* characters of a text.  Each rule is a regular expression with its       *)
(* replacement; a match is found as re.sub finds it (leftmost, the         *)
(* quantifiers greedy, backtracking where the expression allows it).       *)
(***************************************************************************)
Redacted == <<"*", "*", "*", "R", "E", "D", "A", "C", "T", "E", "D", "*", "*", "*">>

RedactedIp == <<"*", "*", "*", ".", "*", "*", "*", ".", "*", "*", "*", ".", "*", "*", "*">>

RedactedEmail == <<"*", "*", "*", "@", "*", "*", "*", ".", "*", "*", "*">>

Letters ==
    {Uppercase[i] : i \in 1..Len(Uppercase)} \cup {Lowercase[i] : i \in 1..Len(Lowercase)}

\* the flag (?i): letters compare by their lower case
casefold(c) == IF c \in DOMAIN LowerChar THEN LowerChar[c] ELSE c

\* a[_-]?b
Joined(a, b) == {a \o b, a \o <<"_">> \o b, a \o <<"-">> \o b}

\* api[_-]?key|secret[_-]?key|access[_-]?token|auth[_-]?token|private[_-]?key
CredentialKeys ==
    Joined(<<"a", "p", "i">>, <<"k", "e", "y">>)
        \cup Joined(<<"s", "e", "c", "r", "e", "t">>, <<"k", "e", "y">>)
        \cup Joined(<<"a", "c", "c", "e", "s", "s">>, <<"t", "o", "k", "e", "n">>)
        \cup Joined(<<"a", "u", "t", "h">>, <<"t", "o", "k", "e", "n">>)
        \cup Joined(<<"p", "r", "i", "v", "a", "t", "e">>, <<"k", "e", "y">>)

\* password|passwd|pwd|secret|token|credential
PasswordKeys ==
    { <<"p", "a", "s", "s", "w", "o", "r", "d">>, <<"p", "a", "s", "s", "w", "d">>,
      <<"p", "w", "d">>, <<"s", "e", "c", "r", "e", "t">>, <<"t", "o", "k", "e", "n">>,
      <<"c", "r", "e", "d", "e", "n", "t", "i", "a", "l">> }

\* API_KEY|SECRET_KEY|PASSWORD|DB_PASSWORD|AUTH_TOKEN|ACCESS_TOKEN|PRIVATE_KEY
EnvNames ==
    { <<"a", "p", "i", "_", "k", "e", "y">>, <<"s", "e", "c", "r", "e", "t", "_", "k", "e", "y">>,
      <<"p", "a", "s", "s", "w", "o", "r", "d">>,
      <<"d", "b", "_", "p", "a", "s", "s", "w", "o", "r", "d">>,
      <<"a", "u", "t", "h", "_", "t", "o", "k", "e", "n">>,
      <<"a", "c", "c", "e", "s", "s", "_", "t", "o", "k", "e", "n">>,
      <<"p", "r", "i", "v", "a", "t", "e", "_", "k", "e", "y">> }

NoMatch == [found |-> FALSE, end |-> 0, value |-> <<>>, replacement |-> <<>>]

\* a match: its last position, the value it holds and the text that replaces it
Match(end, value, replacement) ==
    [found |-> TRUE, end |-> end, value |-> value, replacement |-> replacement]

\* the alternative of keys that the text holds at position i, <<>> when none
key_at(keys, s, i) ==
    LET here == {k \in keys : /\ i + Len(k) - 1 <= Len(s)
                              /\ \A j \in 1..Len(k) : casefold(s[i + j - 1]) = k[j]}
    IN  IF here = {} THEN <<>> ELSE CHOOSE k \in here : TRUE

\* rules 1 to 4 at position i: (key)(\s*[:=]\s*) quote [^quote]* quote
quoted_match(keys, quote, s, i) ==
    LET k == key_at(keys, s, i)
        sep == skip_ws(s, i + Len(k))
    IN  IF k = <<>> \/ sep > Len(s) THEN NoMatch
        ELSE IF s[sep] \notin {":", "="} THEN NoMatch
        ELSE LET open == skip_ws(s, sep + 1)
             IN  IF open > Len(s) THEN NoMatch
                 ELSE IF s[open] /= quote \/ \A c \in (open + 1)..Len(s) : s[c] /= quote
                 THEN NoMatch
                 ELSE LET close == CHOOSE c \in (open + 1)..Len(s) :
                                       s[c] = quote /\ \A j \in (open + 1)..(c - 1) : s[j] /= quote
                      IN  Match(close, SubSeq(s, open + 1, close - 1),
                                SubSeq(s, i, open) \o Redacted \o <<quote>>)

\* rule 5 at position i: ^((?:names)\s*=\s*)(.+)$ with the flags (?im)
env_match(s, i) ==
    LET k == key_at(EnvNames, s, i)
        eq == skip_ws(s, i + Len(k))
    IN  IF k = <<>> \/ eq > Len(s) \/ ~(i = 1 \/ s[i - 1] = "\n") THEN NoMatch
        ELSE IF s[eq] /= "=" THEN NoMatch
        ELSE LET starts == {v \in (eq + 1)..skip_ws(s, eq + 1) : v <= Len(s) /\ s[v] /= "\n"}
             IN  IF starts = {} THEN NoMatch
                 ELSE LET v == CHOOSE v \in starts : \A w \in starts : w <= v
                          e == CHOOSE e \in v..Len(s) :
                                   /\ \A j \in v..e : s[j] /= "\n"
                                   /\ e = Len(s) \/ s[e + 1] = "\n"
                      IN  Match(e, SubSeq(s, v, e), SubSeq(s, i, v - 1) \o Redacted)

\* \w and \b
IsWord(s, i) == 1 <= i /\ i <= Len(s) /\ s[i] \in (Letters \cup Digits \cup {"_"})

boundary(s, i) == IsWord(s, i - 1) /= IsWord(s, i)

\* the number of characters of the class from position i on
run(class, s, i) ==
    CHOOSE n \in 0..(Len(s) - i + 1) :
        /\ \A j \in i..(i + n - 1) : s[j] \in class
        /\ i + n > Len(s) \/ s[i + n] \notin class

\* \d{1,3}\. at position i: the position after the dot, 0 when there is none
octet_dot(s, i) ==
    IF i = 0 \/ i > Len(s) THEN 0
    ELSE LET n == run(Digits, s, i)
         IN  IF 1 <= n /\ n <= 3 /\ i + n <= Len(s) /\ s[i + n] = "." THEN i + n + 1 ELSE 0

\* rule 6 at position i: \b(?:\d{1,3}\.){3}\d{1,3}\b
ip_match(s, i) ==
    LET last == octet_dot(s, octet_dot(s, octet_dot(s, i)))
    IN  IF last = 0 \/ last > Len(s) \/ ~boundary(s, i) THEN NoMatch
        ELSE LET n == run(Digits, s, last)
             IN  IF 1 <= n /\ n <= 3 /\ boundary(s, last + n)
                 THEN Match(last + n - 1, <<>>, RedactedIp)
                 ELSE NoMatch

\* rule 7 at position i: \b[A-Za-z0-9._%+-]+@[A-Za-z0-9.-]+\.[A-Z|a-z]{2,}\b
email_match(s, i) ==
    LET at == i + run(Letters \cup Digits \cup {".", "_", "%", "+", "-"}, s, i)
    IN  IF at = i \/ at > Len(s) \/ ~boundary(s, i) THEN NoMatch
        ELSE IF s[at] /= "@" THEN NoMatch
        ELSE LET domain == run(Letters \cup Digits \cup {".", "-"}, s, at + 1)
                 \* <<d, t>>: d characters of domain, a dot, t characters of the last part
                 ends == {x \in (1..domain) \X (2..Len(s)) :
                             /\ at + x[1] + 1 + x[2] <= Len(s)
                             /\ s[at + x[1] + 1] = "."
                             /\ \A j \in (at + x[1] + 2)..(at + x[1] + 1 + x[2]) :
                                    s[j] \in (Letters \cup {"|"})
                             /\ boundary(s, at + x[1] + 2 + x[2])}
             IN  IF ends = {} THEN NoMatch
                 ELSE LET x == CHOOSE x \in ends :
                                   \A y \in ends : y[1] < x[1] \/ (y[1] = x[1] /\ y[2] <= x[2])
                      IN  Match(at + x[1] + 1 + x[2], <<>>, RedactedEmail)

\* the list of rules, by position
SANITIZE_RULES == <<1, 2, 3, 4, 5, 6, 7>>

match_at(rule, s, i) ==
    CASE rule = 1 -> quoted_match(CredentialKeys, "\"", s, i)
      [] rule = 2 -> quoted_match(CredentialKeys, "'", s, i)
      [] rule = 3 -> quoted_match(PasswordKeys, "\"", s, i)
      [] rule = 4 -> quoted_match(PasswordKeys, "'", s, i)
      [] rule = 5 -> env_match(s, i)
      [] rule = 6 -> ip_match(s, i)
      [] rule = 7 -> email_match(s, i)

\* pattern.sub(replacement, s) from position i on
RECURSIVE sub_from(_, _, _)
sub_from(rule, s, i) ==
    IF i > Len(s) THEN <<>>
    ELSE LET m == match_at(rule, s, i)
         IN  IF m.found THEN m.replacement \o sub_from(rule, s, m.end + 1)
             ELSE <<s[i]>> \o sub_from(rule, s, i + 1)

\* the loop of sanitize_code over a list of rules
RECURSIVE apply_rules(_, _)
apply_rules(rules, sanitized) ==
    IF rules = <<>> THEN sanitized
    ELSE apply_rules(Tail(rules), sub_from(Head(rules), sanitized, 1))

\* sanitize_code on the characters of a text
sanitize_code_text(source_code) == apply_rules(SANITIZE_RULES, source_code)

(***************************************************************************)
(* The calls of sanitize_code: an assignment of a value to a key, after    *)
(* some text and before some text.  The character q stands for the secret: *)
(* it occurs in values only.                                               *)
(***************************************************************************)
Prefixes ==
    { <<>>,
      <<"x", " ">>,
      <<"x", " ", "a", "p", "i", "_", "k", "e", "y", "=", "\"", "a", " ">>,
      <<"1", ".", "2", ".", "3", ".", "4", " ", "a", "@", "b", ".", "c", "d", "\n">> }

AssignedKeys ==
    { <<"A", "p", "i", "-", "K", "e", "y">>,
      <<"p", "w", "d">>,
      <<"P", "A", "S", "S", "W", "O", "R", "D">>,
      <<"n", "a", "m", "e">> }

Separators ==
    { <<"=">>,
      <<":", " ">> }

Suffixes ==
    { <<>>,
      <<"\n", "x">>,
      <<"\"">> }

\* values of at most MaxValueLen characters, bare, double-quoted and
\* single-quoted
AssignedValues ==
    LET values == Texts({"q", "\"", "'"}, MaxValueLen)
    IN  values \cup {<<"\"">> \o v \o <<"\"">> : v \in values}
               \cup {<<"'">> \o v \o <<"'">> : v \in values}

SanitizerTexts ==
    {p \o k \o sep \o v \o x :
        p \in Prefixes, k \in AssignedKeys, sep \in Separators, v \in AssignedValues,
        x \in Suffixes}

\* one call of sanitize_code on the text held in arg
CallSanitizeCode ==
    /\ ret = None
    /\ ret' = Some(sanitize_code_text(arg))
    /\ UNCHANGED <<tasks, dirs, pc, local, uuids, clock, ticks, resp, requested, configured,
                   archVars, arg, chat>>

InitSanitize == Constructed /\ arg \in SanitizerTexts /\ ret = None

NextSanitize == CallSanitizeCode

SpecSanitize == InitSanitize /\ [][NextSanitize]_vars

(***************************************************************************)
(* The calls of sanitize_file_content: a file name below a directory, and  *)
(* a text that is blank or not and holds a secret assignment or not.       *)
(***************************************************************************)
GateDirectories ==
    { <<>>,
      <<"s", "r", "c", "/">>,
      <<".", "e", "n", "v", "o", "y", "/">>,
      <<"d", "o", "c", "s", "/", ".", "e", "n", "v", "o", "y", "/">>,
      <<"a", "/", "b", "_", "1", "/">> }

GateNames ==
    { <<".", "e", "n", "v">>,
      <<".", "e", "n", "v", ".", "l", "o", "c", "a", "l">>,
      <<"x", ".", "p", "y">>,
      <<"X", ".", "P", "Y">>,
      <<"x", ".", "r", "s">>,
      <<"n", "o", "t", "e", "s", ".", "m", "d">>,
      <<"x", ".", "y", "m", "l">>,
      <<"x", ".", "e", "n", "v", ".", "t", "x", "t">>,
      <<"C", "o", "n", "f", ".", "I", "N", "I">>,
      <<"x", ".", "p", "h", "p">>,
      <<"e", "n", "v", "y">>,
      <<"x", ".", "t", "s", "x">> }

GateCalls ==
    [file_path : {d \o n : d \in GateDirectories, n \in GateNames},
     content : {EmptyText, Text(FALSE, FALSE), Text(FALSE, TRUE)}]

\* one call of sanitize_file_content with the arguments held in arg
CallSanitizeFileContent ==
    /\ ret = None
    /\ ret' = Some(sanitize_file_content(arg.file_path, arg.content))
    /\ UNCHANGED <<tasks, dirs, pc, local, uuids, clock, ticks, resp, requested, configured,
                   archVars, arg, chat>>

InitGate == Constructed /\ arg \in GateCalls /\ ret = None

NextGate == CallSanitizeFileContent

SpecGate == InitGate /\ [][NextGate]_vars

(***************************************************************************)
(* LLMService.chat_completion on its own (llm_service.py 35-104).  A call  *)
(* is suspended at client.post only; each answer of the generator is one   *)
(* step, which runs the rest of the loop body and, after a caught error,   *)
(* the next iteration up to its client.post.                               *)
(***************************************************************************)
Contents == {"a", "b", "c"}

\* what client.post and the two lines after it can give:
\*   ok            a 2xx answer whose body holds choices[0].message.content
\*   http_error    raise_for_status raises httpx.HTTPStatusError
\*   request_error client.post raises httpx.RequestError
\*   no_choices    a 2xx answer without "choices": KeyError or IndexError
\*   bad_body      a 2xx answer that is not JSON: response.json() raises
\*                 json.JSONDecodeError, which no except clause names
ChatFailures == {"http_error", "request_error", "no_choices"}

ChatResponses ==
    {[outcome |-> "ok", content |-> c] : c \in Contents}
        \cup {[outcome |-> o, content |-> ""] : o \in ChatFailures \cup {"bad_body"}}

Raised(exception) == [raised |-> exception, value |-> <<>>, preview |-> <<>>]

\* lines 55-76: the configuration test, then the first iteration up to client.post
chat_completion ==
    /\ chat.pc \in {"idle", "returned", "raised"}
    /\ chat.calls < MaxCalls
    /\ IF ~configured
       THEN /\ chat' = [NoChat EXCEPT !.pc = "raised", !.calls = chat.calls + 1]
            /\ ret' = Some(LLMError(<<"not_configured">>))
       ELSE /\ chat' = [NoChat EXCEPT !.pc = "await_post", !.requests = 1,
                                      !.calls = chat.calls + 1]
            /\ ret' = None
    /\ UNCHANGED <<tasks, dirs, pc, local, uuids, clock, ticks, resp, requested, configured,
                   archVars, arg>>

\* Seeded fault for C25: the loop runs one iteration too many.
PostResponse_ExtraAttempt(response) ==
    /\ chat.pc = "await_post"
    /\ LET responses == Append(chat.responses, response)
       IN  CASE response.outcome = "ok" ->
                    /\ chat' = [chat EXCEPT !.pc = "returned", !.responses = responses]
                    /\ ret' = Some(Returned(response.content))
             [] response.outcome \in ChatFailures ->
                    IF chat.attempt < max_retries + 1
                    THEN /\ chat' = [chat EXCEPT !.attempt = @ + 1, !.requests = @ + 1,
                                                 !.responses = responses]
                         /\ ret' = None
                    ELSE /\ chat' = [chat EXCEPT !.pc = "raised", !.responses = responses]
                         /\ ret' = Some(LLMError(<<response.outcome>>))
             [] response.outcome = "bad_body" ->
                    /\ chat' = [chat EXCEPT !.pc = "raised", !.responses = responses]
                    /\ ret' = Some(Raised("JSONDecodeError"))
    /\ UNCHANGED <<tasks, dirs, pc, local, uuids, clock, ticks, resp, requested, configured,
                   archVars, arg>>

\* lines 76-104: the answer to client.post and what the loop does with it
PostResponse(response) ==
    /\ chat.pc = "await_post"
    /\ LET responses == Append(chat.responses, response)
       IN  CASE response.outcome = "ok" ->
                    /\ chat' = [chat EXCEPT !.pc = "returned", !.responses = responses]
                    /\ ret' = Some(Returned(response.content))
             [] response.outcome \in ChatFailures ->
                    IF chat.attempt + 1 < max_retries + 1
                    THEN /\ chat' = [chat EXCEPT !.attempt = @ + 1, !.requests = @ + 1,
                                                 !.responses = responses]
                         /\ ret' = None
                    ELSE /\ chat' = [chat EXCEPT !.pc = "raised", !.responses = responses]
                         /\ ret' = Some(LLMError(<<response.outcome>>))
             [] response.outcome = "bad_body" ->
                    /\ chat' = [chat EXCEPT !.pc = "raised", !.responses = responses]
                    /\ ret' = Some(Raised("JSONDecodeError"))
    /\ UNCHANGED <<tasks, dirs, pc, local, uuids, clock, ticks, resp, requested, configured,
                   archVars, arg>>

InitChat == Constructed /\ arg = None /\ ret = None

NextChat ==
    \/ chat_completion
    \/ \E response \in ChatResponses : PostResponse(response)

SpecChat == InitChat /\ [][NextChat]_vars

(***************************************************************************)
(* The scan stage on its own (project_service.py 115-126): the tree, the   *)
(* emptiness test and the scanner, on an extracted directory at some       *)
(* absolute path.                                                          *)
(***************************************************************************)
ScanPaths ==
    { <<<<"m", ".", "p", "y">>>>,
      <<<<"l", ".", "p", "n", "g">>>>,
      <<<<"s", "r", "c">>, <<"a", ".", "j", "s">>>>,
      <<<<"R", ".", "m", "d">>>>,
      <<<<"v", "e", "n", "d", "o", "r">>, <<"x", ".", "j", "s">>>>,
      <<<<".", "h">>, <<"a", ".", "p", "y">>>>,
      <<<<"a", ".", "m", "a", "p">>, <<"b", ".", "p", "y">>>>,
      <<<<"d", "o", "c", "s">>, <<"c", ".", "y", "m", "l">>>>,
      <<<<"s", "r", "c">>, <<".", "e", ".", "p", "y">>>>,
      <<<<"s", "r", "c">>, <<"l", "i", "b">>, <<"D", ".", "P", "Y">>>>,
      <<<<".", "e", ".", "j", "s", "o", "n">>>> }

\* the directories of at most MaxFiles files
ScanDirs ==
    {{File(q, FALSE) : q \in paths} : paths \in {S \in SUBSET ScanPaths : Cardinality(S) <= MaxFiles}}

\* the parts of the absolute path of the directory: the one the pipeline
\* uses, and two other places a directory can be at
ScanRoots ==
    { RootParts,
      <<<<"/">>, <<"s", "r", "v">>, <<"b", "u", "i", "l", "d">>, <<"u">>>>,
      <<<<"/">>, <<"h", "o", "m", "e">>, <<"b", "i", "n">>>> }

ScanCalls == [root : ScanRoots, dir : ScanDirs]

CallScanStage ==
    /\ ret = None
    /\ LET project_tree == _scan_directory(arg.dir)
       IN  ret' = Some([project_tree |-> project_tree,
                        is_empty |-> _is_empty_project(project_tree),
                        file_summaries |-> scan_project_files(arg.root, arg.dir)])
    /\ UNCHANGED <<tasks, dirs, pc, local, uuids, clock, ticks, resp, requested, configured,
                   archVars, arg, chat>>

InitScan == Constructed /\ arg \in ScanCalls /\ ret = None

NextScan == CallScanStage

SpecScan == InitScan /\ [][NextScan]_vars

(***************************************************************************)
(* Properties.                                                             *)
(***************************************************************************)

\* C1: a task's progress never decreases and stays within 0..100: every step
\* leaves the progress of every task that stays registered at a value >= the
\* one it replaces.
C1_ProgressNeverDecreases ==
    [][\A id \in (DOMAIN tasks) \cap (DOMAIN tasks') :
           /\ tasks[id].progress <= tasks'[id].progress
           /\ tasks'[id].progress \in 0..100]_vars

\* C1 witness: one task has run through every write up to 100 while another
\* one failed after its progress had been raised to 80.
C1_Witness ==
    \E a, b \in DOMAIN tasks :
        /\ tasks[a].status = "completed" /\ tasks[a].progress = 100
        /\ tasks[b].status = "failed" /\ tasks[b].progress = 80

\* C2: terminal states are absorbing: a step never changes the record of a
\* task whose status is completed or failed (the task staying registered).
C2_TerminalAbsorbing ==
    [][\A id \in (DOMAIN tasks) \cap (DOMAIN tasks') :
           tasks[id].status \in {"completed", "failed"} => tasks'[id] = tasks[id]]_vars

\* C2 witness: a completed task and a failed one, both with their coroutine
\* ended, while a status query has just been answered.
C2_Witness ==
    /\ resp.op = "get_task_status"
    /\ \E a, b \in DOMAIN tasks :
        /\ tasks[a].status = "completed" /\ pc[a] = "done"
        /\ tasks[b].status = "failed" /\ pc[b] = "done"

\* C3: once _parse_project has returned, the working directory of its task
\* does not exist.
C3_DirectoryRemovedOnReturn ==
    \A id \in Ids : pc[id] = "done" => id \notin DOMAIN dirs

\* C4: an exception on its way out of the try block moves the task straight
\* to failed, with a message made from the error, and leaves the progress at
\* the value written last; the stage that raised left the status untouched.
C4_ExceptionFailsTask ==
    [][\A id \in (DOMAIN tasks) \cap (DOMAIN tasks') :
           /\ (pc[id] /= "raised" /\ pc'[id] = "raised") =>
                  /\ tasks'[id].status = "processing"
                  /\ local'[id].error /= ""
           /\ pc[id] = "raised" =>
                  /\ pc'[id] = "finally"
                  /\ tasks'[id].status = "failed"
                  /\ tasks'[id].message = <<"parse_failed", local[id].error>>
                  /\ tasks'[id].progress = tasks[id].progress]_vars

\* C4 witness: a task failed by the generator's unusable answer in the diagram
\* stage, its progress still the 80 written when that stage began.
C4_Witness ==
    \E id \in DOMAIN tasks :
        /\ tasks[id].status = "failed"
        /\ tasks[id].message = <<"parse_failed", "JSONDecodeError">>
        /\ tasks[id].progress = 80
        /\ pc[id] = "done"

\* an uploaded tree in which no file that the tree keeps (not skipped, no
\* segment starting with a dot) has a code extension
NoCodeFile(archive) ==
    \A f \in archive :
        \/ ~is_code_file(f.path)
        \/ should_skip_path(f.path)
        \/ \E k \in 1..Len(f.path) : f.path[k][1] = "."

\* C5: for an upload with no code file the pipeline never gets past the scan
\* stage, never sends a request to the generator, and, unless unpacking or
\* scanning itself raised, ends failed with the empty-project message at
\* progress 25.
C5_EmptyProjectShortCircuits ==
    \A id \in DOMAIN tasks :
        \/ /\ pc[id] \in {"queued", "scan", "raised", "finally", "done"}
           /\ ~requested[id]
           /\ tasks[id].progress <= 25
           /\ tasks[id].project_data = None
           /\ tasks[id].file_summaries = <<>>
           /\ (pc[id] \in {"finally", "done"}
                 /\ tasks[id].message /= <<"parse_failed", "OSError">>) =>
                  /\ tasks[id].status = "failed"
                  /\ tasks[id].message = MsgEmptyProject
                  /\ tasks[id].progress = 25
        \/ ~NoCodeFile(local[id].file_content)

\* C5 witness: the pipeline of an archive holding only an image has ended
\* with the empty-project failure.
C5_Witness ==
    \E id \in DOMAIN tasks :
        /\ local[id].file_content = ArchImage
        /\ pc[id] = "done"
        /\ tasks[id].status = "failed"
        /\ tasks[id].message = MsgEmptyProject

\* C6: an accepted upload adds exactly one task, under an id that no task,
\* pipeline or directory has used, changes no other task, and returns the id
\* and the file list while the new task is processing at progress 0 and its
\* pipeline has not run yet.
C6_UploadCreatesOneFreshTask ==
    [][(resp'.op = "upload_and_parse" /\ resp'.raised = "") =>
          LET id == resp'.task_id
          IN  /\ id \notin DOMAIN tasks
              /\ id \notin DOMAIN dirs
              /\ pc[id] = "none"
              /\ DOMAIN tasks' = (DOMAIN tasks) \cup {id}
              /\ \A other \in DOMAIN tasks : tasks'[other] = tasks[other]
              /\ \A other \in Ids \ {id} : pc'[other] = pc[other]
              /\ tasks'[id].task_id = id
              /\ tasks'[id].status = "processing"
              /\ tasks'[id].progress = 0
              /\ pc'[id] = "queued"
              /\ resp'.file_list = tasks'[id].file_list]_vars

\* C6 witness: a second upload has just returned while the pipeline of the
\* first one is suspended in a generator request.
C6_Witness ==
    /\ resp.op = "upload_and_parse" /\ resp.raised = "" /\ resp.task_id = 2
    /\ pc[1] = "await_enrich"
    /\ tasks[2].status = "processing" /\ tasks[2].progress = 0

\* C7: an upload over the size ceiling or not a ZIP file is rejected with
\* ValueError before anything is unpacked, and so is one whose unpacking
\* fails; none of them creates a task, starts a pipeline or changes the
\* registry.  An upload at or under the ceiling that is a ZIP file and
\* unpacks is not rejected.
C7_RejectedUploadLeavesRegistry ==
    [][\A u \in UploadInputs :
           upload_and_parse(u.size, u.is_zip, u.archive, u.extract_ok) =>
               IF u.size > MAX_UPLOAD_SIZE_MB * 1024 * 1024 \/ ~u.is_zip
               THEN /\ resp'.raised = "ValueError"
                    /\ UNCHANGED <<tasks, pc, dirs, uuids>>
               ELSE IF ~u.extract_ok
               THEN /\ resp'.raised = "ValueError"
                    /\ UNCHANGED <<tasks, pc>>
               ELSE resp'.raised = ""]_vars

\* C7 witness: an upload has just been refused with ValueError while the
\* registry holds a task, and a directory made by a failed unpacking exists.
C7_Witness ==
    /\ resp.op = "upload_and_parse" /\ resp.raised = "ValueError"
    /\ DOMAIN tasks = {1}
    /\ 2 \in DOMAIN dirs /\ pc[2] = "none"

\* C8: get_task_status never raises and never changes the registry; for an id
\* that is not registered it answers not_found, for a registered one the
\* task's status, progress and message.
C8_StatusQuery ==
    [][resp'.op = "get_task_status" =>
          LET id == resp'.task_id
          IN  /\ resp'.raised = ""
              /\ tasks' = tasks
              /\ IF id \in DOMAIN tasks
                 THEN /\ resp'.status = tasks[id].status
                      /\ resp'.progress = tasks[id].progress
                      /\ resp'.message = tasks[id].message
                 ELSE resp'.status = "not_found"]_vars

\* C8 witness: not_found has been answered for a task that existed and was
\* evicted, while another task is registered.
C8_Witness ==
    /\ resp.op = "get_task_status" /\ resp.status = "not_found"
    /\ pc[resp.task_id] = "done"
    /\ DOMAIN tasks /= {}

\* C9: get_project_data and get_file_summaries return a task's data exactly
\* when that task is registered with status completed at the time of the
\* call, and None / the empty list otherwise.
C9_ResultOnlyWhenCompleted ==
    [][resp'.op \in {"get_project_data", "get_file_summaries"} =>
          LET id == resp'.task_id
          IN  IF id \in DOMAIN tasks /\ tasks[id].status = "completed"
              THEN /\ resp'.op = "get_project_data" =>
                          resp'.data = tasks[id].project_data /\ resp'.data /= None
                   /\ resp'.op = "get_file_summaries" =>
                          resp'.data = tasks[id].file_summaries
              ELSE resp'.data = <<>>]_vars

\* C9 witness: a result query has been answered with the tree and diagram of
\* a completed task while another pipeline is suspended in a request.
C9_Witness ==
    /\ resp.op = "get_project_data" /\ resp.data /= None
    /\ \E id \in Ids : pc[id] \in {"await_enrich", "await_diagram"}

\* C10: the sweep removes exactly the tasks older than 24 hours and leaves
\* the record of every other task as it was: a task aged 25 hours goes, a
\* task aged 1 hour, or exactly 24 hours, stays.
C10_SweepEvictsOlderThanADay ==
    [][resp'.op = "_cleanup_expired_tasks" =>
          /\ DOMAIN tasks' = {id \in DOMAIN tasks :
                                 clock - tasks[id].created_at <= 24 * Hour}
          /\ \A id \in DOMAIN tasks' : tasks'[id] = tasks[id]
          /\ \A id \in DOMAIN tasks :
                 /\ clock - tasks[id].created_at = 25 * Hour => id \notin DOMAIN tasks'
                 /\ clock - tasks[id].created_at = Hour => id \in DOMAIN tasks']_vars

\* C10 witness: a sweep at T+25h has just removed the task created at T and
\* kept the one created at T+25h.
C10_Witness ==
    /\ resp.op = "_cleanup_expired_tasks"
    /\ clock = 25 * Hour
    /\ pc[1] /= "none" /\ 1 \notin DOMAIN tasks
    /\ 2 \in DOMAIN tasks /\ tasks[2].created_at = 25 * Hour

\* C10 second case: a sweep at T+1h has kept the task created at T.
C10_WitnessKept ==
    /\ resp.op = "_cleanup_expired_tasks"
    /\ clock = Hour
    /\ 1 \in DOMAIN tasks /\ tasks[1].created_at = 0

\* C11: eviction removes everything held in memory for the task: no entry of
\* the visualization cache is keyed by an id that is not in the registry,
\* and no visualization query answers with data for such an id.
C11_EvictionRemovesAllData ==
    /\ DOMAIN _cache \subseteq DOMAIN tasks
    /\ (resp.op = "get_architecture_visualization" /\ resp.task_id \notin DOMAIN tasks)
           => resp.data = None

\* C12: every started task reaches a terminal state: a task whose status is
\* processing eventually has status completed or failed.
C12_EveryTaskTerminates ==
    \A id \in Ids :
        (id \in DOMAIN tasks /\ tasks[id].status = "processing")
            ~> (id \in DOMAIN tasks /\ tasks[id].status \in {"completed", "failed"})

\* a processing task is waiting for the generator's answer to its retry
C12_Witness ==
    \E id \in DOMAIN tasks :
        /\ tasks[id].status = "processing"
        /\ pc[id] = "await_diagram"
        /\ local[id].attempt = max_retries

\* C13: text is redacted before it reaches the generator: while the summaries
\* request of a task is with the generator, the preview of every code file in
\* its prompt is the rule list applied to that file's text (sanitize_code of
\* the text), never the raw text.
C13_PromptPreviewsAreRedacted ==
    \A id \in Ids :
        pc[id] = "await_enrich" =>
            LET files == Take(code_files_for_summary(local[id].file_summaries), 20)
            IN  \A i \in 1..Len(files) :
                    files[i].sanitized_preview =
                        sanitize_code(read_text(local[id].file_content, files[i].file_path))

\* C14: failures of the generator are recovered inside the stage that called
\* it: no answer to a request of the enrichment or diagram stage sends the
\* pipeline to its exception handler (and so the task to failed); the stage
\* goes on, with the generator's text or with the local default.
C14_GeneratorFailuresRecovered ==
    [][\A id \in Ids :
           pc[id] \in {"await_enrich", "await_diagram"} => pc'[id] /= "raised"]_vars

\* a JSON array with free prose (no bracket, no brace) before and after it,
\* either of which may be empty: the text from the first "[" to the last "]"
\* of the trimmed input is one JSON array
JsonArrayInput(text) ==
    LET cleaned == strip(text)
        first == find(cleaned, "[")
        last == rfind(cleaned, "]")
        around == SubSeq(cleaned, 1, first - 1) \o SubSeq(cleaned, last + 1, Len(cleaned))
    IN  /\ delimited_text(cleaned, "[", "]").ok
        /\ \A k \in 1..Len(around) : around[k] \notin {"{", "}"}

\* C15: for every input that is a JSON array, bare or wrapped in free prose,
\* validate_and_parse_json returns an object whose only key, items, holds
\* exactly that array; it never returns the bare list.
C15_ArraysAreWrappedInItems ==
    (ret /= None /\ JsonArrayInput(arg)) =>
        LET array == delimited_text(strip(arg), "[", "]").value
        IN  ret[1] = Returned(<<"dict", Put([k \in {} |-> <<>>], Items, array)>>)

\* none of the four recovery strategies yields valid JSON for the text
NoStrategyYieldsJson(text) ==
    LET cleaned == strip(text)
    IN  /\ ~json_loads(cleaned).ok
        /\ ~fenced_text(cleaned).ok
        /\ ~delimited_text(cleaned, "{", "}").ok
        /\ ~delimited_text(cleaned, "[", "]").ok

\* C16: when none of the four recovery strategies yields valid JSON, the call
\* raises LLMError, the message quotes the first 200 characters of the trimmed
\* input and no more, and nothing is returned.
C16_UnrepairableInputRaises ==
    (ret /= None /\ NoStrategyYieldsJson(arg)) =>
        /\ ret[1].raised = "LLMError"
        /\ Len(ret[1].preview) <= 200
        /\ ret[1].preview = SubSeq(strip(arg), 1, Len(ret[1].preview))
        /\ Len(ret[1].preview) = 200 \/ ret[1].preview = strip(arg)

\* C16 witness: a broken answer longer than 200 characters after trimming was
\* refused, its message quoting exactly 200 characters.
C16_Witness ==
    /\ ret /= None
    /\ NoStrategyYieldsJson(arg)
    /\ Len(strip(arg)) > 200
    /\ find(arg, "[") /= 0
    /\ ret[1].raised = "LLMError"
    /\ Len(ret[1].preview) = 200

\* C16 witness: the empty string was refused.
C16_WitnessEmpty ==
    /\ ret /= None
    /\ arg = <<>>
    /\ ret[1] = LLMError(<<>>)

\* C17: joining the chunks returned by chunk_code with a single newline
\* between consecutive chunks gives back the text, for every text and every
\* max_chars >= 1.
C17_ChunksRejoinToText ==
    ret /= None => join_lines(ret[1]) = arg.content

\* C17 witness: a text was cut into at least three chunks, one of them empty,
\* and the chunks rejoin to it.
C17_Witness ==
    /\ ret /= None
    /\ Len(ret[1]) >= 3
    /\ \E i \in 1..Len(ret[1]) : ret[1][i] = <<>>
    /\ \E i \in 1..Len(ret[1]) : Len(split_lines(ret[1][i])) > 1
    /\ join_lines(ret[1]) = arg.content

\* the lines of the chunks, in order
RECURSIVE lines_of(_)
lines_of(chunks) ==
    IF chunks = <<>> THEN <<>> ELSE split_lines(Head(chunks)) \o lines_of(Tail(chunks))

C19_ShortTextIsOneChunk ==
    ret /= None =>
        /\ Len(arg.content) <= arg.max_chars => ret[1] = <<arg.content>>
        /\ arg.content = <<>> => ret[1] = << <<>> >>

\* C19 witness: a text of several lines and of exactly max_chars characters
\* came back whole.
C19_Witness ==
    /\ ret /= None
    /\ Len(arg.content) = arg.max_chars
    /\ Len(split_lines(arg.content)) > 1
    /\ ret[1] = <<arg.content>>

\* C19 witness: the empty text under the default limit.
C19_WitnessEmpty ==
    /\ ret /= None
    /\ arg = [content |-> <<>>, max_chars |-> MAX_CHUNK_CHARS]
    /\ ret[1] = << <<>> >>

\* some segment of the path is, as a whole, an entry of the directory block-list
HasBlockedSegment(path) == {path[k] : k \in 1..Len(path)} \cap SKIP_DIRECTORIES /= {}

\* the lower-cased file name is some text followed by an entry of the suffix
\* block-list
HasBlockedEnding(path) ==
    LET file_name == lower(PathName(path))
    IN  \E pattern \in SKIP_FILE_PATTERNS :
            \E n \in 0..Len(file_name) :
                file_name = SubSeq(file_name, 1, n) \o pattern

\* C20: should_skip_path(path) is true exactly when some segment of the path
\* equals an entry of the directory block-list (the whole segment, not a part
\* of it) or the lower-cased file name ends with an entry of the suffix
\* block-list.
C20_SkipExactlyBlockedPaths ==
    ret /= None => (ret[1] <=> (HasBlockedSegment(arg) \/ HasBlockedEnding(arg)))

\* C20 witness: a nested path whose segments only start with or differ in
\* case from block-list entries, ending in a source file, was kept.
C20_Witness ==
    /\ ret /= None
    /\ arg = <<<<"v", "e", "n", "d", "o", "r", "s">>, <<"D", "i", "s", "t">>, <<"m", "a", "i", "n", ".", "p", "y">>>>
    /\ ret[1] = FALSE

\* C20 witness: a file below a blocked directory was skipped.
C20_WitnessDirectory ==
    /\ ret /= None
    /\ arg = <<<<"s", "r", "c">>, <<"n", "o", "d", "e", "_", "m", "o", "d", "u", "l", "e", "s">>, <<"m", "a", "i", "n", ".", "p", "y">>>>
    /\ ret[1] = TRUE

\* C20 witness: a file name with an upper-case blocked ending was skipped.
C20_WitnessEnding ==
    /\ ret /= None
    /\ arg = <<<<"a", "p", "p">>, <<"l", "o", "g", "o", ".", "P", "N", "G">>>>
    /\ ret[1] = TRUE

\* the values of the secret assignments a text holds: what rules 1 to 5 take
\* for the value where they match, at any position of the text
RecognizedValues(text) ==
    {match_at(x[1], text, x[2]).value :
        x \in {y \in (1..5) \X (1..Len(text)) : match_at(y[1], text, y[2]).found}}

\* C21: for every input that holds a recognized secret assignment, the output
\* of sanitize_code does not hold the literal secret value and does hold the
\* redaction token.  (The values looked at are those with the secret
\* character in them, which no key, separator or token contains.)
C21_SecretValuesAreRedacted ==
    ret /= None =>
        \A value \in RecognizedValues(arg) :
            (\E i \in 1..Len(value) : value[i] = "q") =>
                /\ ~contains(ret[1], value)
                /\ contains(ret[1], Redacted)

\* the file name of a path given as text: what follows the last "/"
FileNameOf(file_path) == SubSeq(file_path, rfind(file_path, "/") + 1, Len(file_path))

\* the file name ends with a listed config or source-code extension, or is
\* the env dotfile
GatedName(file_path) ==
    LET name == lower(FileNameOf(file_path))
    IN  \/ \E ext \in config_extensions \cup code_extensions : endswith(name, ext)
        \/ name = <<".", "e", "n", "v">>

\* C22: sanitization is gated by the file name only: for a name with a
\* config-like or source-code extension, or the env dotfile, the rules are
\* applied; for every other path the content comes back unchanged, whatever
\* it is.  (Other names that start with .env are left open here.)
C22_GatedByFileNameOnly ==
    ret /= None =>
        /\ GatedName(arg.file_path) => ret[1] = sanitize_code(arg.content)
        /\ (~GatedName(arg.file_path)
              /\ ~startswith(lower(FileNameOf(arg.file_path)), <<".", "e", "n", "v">>))
            => ret[1] = arg.content

\* C23: whenever every pipeline is at a suspension point (or not running), a
\* task is completed exactly when its progress is 100 and its result is
\* present, and a processing or failed task has progress below 100 and no
\* result.
C23_CompletedIffFullProgressAndResult ==
    Parked =>
        \A id \in DOMAIN tasks :
            /\ tasks[id].status = "completed"
                  <=> (tasks[id].progress = 100 /\ tasks[id].project_data /= None)
            /\ tasks[id].status \in {"processing", "failed"}
                  => (tasks[id].progress < 100 /\ tasks[id].project_data = None)

\* C23 witness: with every pipeline parked, one task is completed at 100 with
\* its result and another has failed below 100 without one.
C23_Witness ==
    /\ Parked
    /\ \E a, b \in DOMAIN tasks :
          /\ tasks[a].status = "completed"
          /\ tasks[a].progress = 100
          /\ tasks[a].project_data /= None
          /\ tasks[b].status = "failed"
          /\ tasks[b].progress = 80
          /\ tasks[b].project_data = None

(***************************************************************************)
(* C24.  A record of the registry is written by the pipeline that owns its *)
(* id and by nothing else that runs beside it: a step of the pipeline of   *)
(* task a leaves every other task's record in the registry, every field    *)
(* as it was, and a step of get_task_status, get_project_data or           *)
(* get_file_summaries leaves the whole registry as it was.  (Stated in the  *)
(* contrapositive: a step that touches b's record is no step of another    *)
(* task's pipeline, and a step that changes the registry is no query.)     *)
(***************************************************************************)
Untouched(b) == b \in DOMAIN tasks' /\ tasks'[b] = tasks[b]

C24_PipelineWritesOwnRecordOnly ==
    [][ /\ \A a \in Ids : \A b \in DOMAIN tasks \ {a} :
              ~Untouched(b) => ~Pipeline(a)
        /\ \A id \in Ids :
              tasks' /= tasks =>
                  ~(get_task_status(id) \/ get_project_data(id) \/ get_file_summaries(id)) ]_vars

\* Two pipelines are in flight and one of them has gone further than the other.
C24_Witness ==
    \E a, b \in DOMAIN tasks :
        /\ a /= b
        /\ pc[a] \notin {"none", "done"}
        /\ pc[b] \notin {"none", "done"}
        /\ tasks[a].status = "processing"
        /\ tasks[b].status = "processing"
        /\ tasks[a].progress > tasks[b].progress
        /\ tasks[b].progress > 0

(***************************************************************************)
(* C25.  A call of chat_completion sends at most two requests; an answer   *)
(* that succeeds ends the call, which returns that answer's content (so a  *)
(* successful answer is always the last one of its call); a call whose two *)
(* answers were non-2xx or network errors has raised LLMError; and with no *)
(* API key configured every call raises LLMError with no request sent.     *)
(***************************************************************************)
C25_AtMostTwoRequests ==
    LET responses == chat.responses
        n == Len(responses)
    IN  /\ chat.requests <= 2
        /\ chat.requests = n + (IF chat.pc = "await_post" THEN 1 ELSE 0)
        /\ \A i \in 1..n :
              responses[i].outcome = "ok" =>
                  /\ i = n
                  /\ chat.pc = "returned"
                  /\ ret = Some(Returned(responses[i].content))
        /\ chat.pc = "returned" => (n > 0 /\ responses[n].outcome = "ok")
        /\ (n = 2 /\ \A i \in 1..n : responses[i].outcome \in {"http_error", "request_error"})
              => (chat.pc = "raised" /\ ret /= None /\ ret[1].raised = "LLMError")
        /\ (~configured /\ chat.calls > 0)
              => (chat.requests = 0 /\ chat.pc = "raised" /\ ret /= None
                    /\ ret[1].raised = "LLMError")

\* a second call whose two requests both failed, the retry with a network error
C25_Witness ==
    /\ chat.calls = 2
    /\ chat.pc = "raised"
    /\ chat.requests = 2
    /\ chat.responses = <<[outcome |-> "http_error", content |-> ""],
                          [outcome |-> "request_error", content |-> ""]>>
    /\ ret = Some(LLMError(<<"request_error">>))

(***************************************************************************)
(* C26.  What an earlier rule has written stays as written: every          *)
(* replacement text that rule k puts in place of a match (key name,        *)
(* separator, quotes and the redaction mark for rules 1-4), when rule k is *)
(* applied to the output of rules 1..k-1, is still a part of the text that *)
(* sanitize_code returns.                                                  *)
(***************************************************************************)
\* the replacement texts pattern.sub writes into s from position i on
RECURSIVE written_from(_, _, _)
written_from(rule, s, i) ==
    IF i > Len(s) THEN {}
    ELSE LET m == match_at(rule, s, i)
         IN  IF m.found THEN {m.replacement} \cup written_from(rule, s, m.end + 1)
             ELSE written_from(rule, s, i + 1)

\* what the k-th rule writes in a run of sanitize_code on source_code
Written(k, source_code) ==
    written_from(SANITIZE_RULES[k],
                 apply_rules(SubSeq(SANITIZE_RULES, 1, k - 1), source_code), 1)

C26_EarlierRedactionsSurvive ==
    ret /= None =>
        \A k \in 1..Len(SANITIZE_RULES) :
            \A written \in Written(k, arg) : contains(ret[1], written)

(***************************************************************************)
(* C27.  _is_empty_project(tree) is true exactly when no file node of the  *)
(* tree has a code extension, the file nodes of the tree being the files   *)
(* none of whose path prefixes is skipped or starts with a dot; so a       *)
(* folder node without children is empty, and a tree whose file nodes are  *)
(* all configuration or documentation files is empty.                      *)
(***************************************************************************)
RECURSIVE Nodes(_)
Nodes(tree) ==
    {tree} \cup UNION {Nodes(tree.children[i]) : i \in 1..Len(tree.children)}

FileNodes(tree) == {n \in Nodes(tree) : n.type = "file"}

\* the files the tree keeps, told from their paths
Retained(dir) ==
    {q \in FilePaths(dir) :
        \A k \in 1..Len(q) :
            ~should_skip_path(SubSeq(q, 1, k)) /\ ~startswith(q[k], <<".">>)}

C27_EmptyIffNoCodeFileNode ==
    ret /= None =>
        LET tree == ret[1].project_tree
        IN  /\ ret[1].is_empty <=> \A n \in FileNodes(tree) : ~is_code_file(<<n.name>>)
            /\ {n.path : n \in FileNodes(tree)} = {PathStr(q) : q \in Retained(arg.dir)}
            /\ ret[1].is_empty <=> \A q \in Retained(arg.dir) : ~is_code_file(q)
            /\ \A n \in Nodes(tree) :
                  (n.type = "folder" /\ Len(n.children) = 0) => _is_empty_project(n)
            /\ (\A n \in FileNodes(tree) : is_config_file(<<n.name>>)) => ret[1].is_empty

\* a directory with a code file that the tree does not keep, under a folder
\* that is left without children, beside a documentation file: empty
C27_Witness ==
    /\ ret /= None
    /\ ret[1].is_empty
    /\ \E q \in FilePaths(arg.dir) : is_code_file(q)
    /\ \E n \in FileNodes(ret[1].project_tree) : is_config_file(<<n.name>>)
    /\ \E n \in Nodes(ret[1].project_tree) :
          n.type = "folder" /\ n.path /= <<".">> /\ Len(n.children) = 0

(***************************************************************************)
(* C30.  What scan_project_files returns depends on the directory's        *)
(* contents only, not on where the directory is: its paths are the         *)
(* relative paths of the code and configuration files that should_skip_path *)
(* keeps as relative paths; and, dotfiles apart, they are the code and     *)
(* configuration file nodes of the tree.                                   *)
(***************************************************************************)
ScannedPaths == {ret[1].file_summaries[i].file_path : i \in 1..Len(ret[1].file_summaries)}

C30_ScanDependsOnRelativePathsOnly ==
    ret /= None =>
        /\ ScannedPaths =
              {PathStr(q) : q \in {f \in FilePaths(arg.dir) :
                  ~should_skip_path(f) /\ (is_code_file(f) \/ is_config_file(f))}}
        /\ {PathStr(q) : q \in {f \in FilePaths(arg.dir) :
                  /\ PathStr(f) \in ScannedPaths
                  /\ \A k \in 1..Len(f) : ~startswith(f[k], <<".">>)}}
              = {n.path : n \in {m \in FileNodes(ret[1].project_tree) :
                                   is_code_file(<<m.name>>) \/ is_config_file(<<m.name>>)}}

Generating(c) == viz[c].pc \in {"await_layers", "await_scenarios", "await_terms"}

C29_GeneratedAtMostOnce ==
    /\ \A a, b \in Callers :
          (a /= b /\ Generating(a) /\ Generating(b)) => viz[a].task_id /= viz[b].task_id
    /\ \A c \in Callers : Generating(c) => viz[c].task_id \notin DOMAIN _cache
    /\ (resp.op = "get_architecture_visualization" /\ resp.status = "200")
          => (resp.task_id \in DOMAIN _cache /\ resp.data = Some(_cache[resp.task_id]))

====
